---- MODULE Spec2Model ----
(***************************************************************************)
(* Model of the CSV/TXT/XML/JSON to SQL INSERT generator.                  *)
(*                                                                         *)
(* Text is modelled as a sequence of one-character strings, so that        *)
(* strip, upper, replace, startswith, join and split are computed the way  *)
(* Python computes them.  A Python value is a record [t, s]: t is the      *)
(* type tag ("none" or "str") and s is str(value).  A dict is a sequence   *)
(* of [k, v] entries with distinct keys, in insertion order.               *)
(***************************************************************************)
EXTENDS Integers, Sequences, FiniteSets, TLC

VARIABLES
    op,          \* name of the operation that ran last ("" before the first)
    args,        \* its arguments
    ret,         \* what it returned (or the exception it raised)
    DIALECTS,    \* SQLGenerator.DIALECTS, the class-level registry (names in insertion order)
    generator,   \* the SQLGenerator instance: [made, dialect, batch_size]
    source,      \* the records of the input file as the parser yields them
    data,        \* the record set in memory, handed from the reader to the generator
    pc,          \* position of the application inside run / _process_csv_file
    config,      \* ConfigManager._config (the options the pipeline reads)
    fs           \* the file system as the application sees and changes it

vars == <<op, args, ret, DIALECTS, generator, source, data, pc, config, fs>>

(***************************************************************************)
(* Bounds of the model.                                                    *)
(***************************************************************************)
MaxValueLen == 3    \* longest enumerated cell text given to format_value
MaxRows == 2        \* most records in a record set given to generate_inserts
MaxBatch == 2       \* largest batch_size a generator is constructed with
MaxRecs == 2        \* most records in a record set given to validate_data
MaxBatchRows == 3   \* most records in a record set written with progress comments
MaxPipeRows == 2    \* most records in a record set sent through validate and generate
MaxJsonDepth == 2   \* deepest nesting of the enumerated JSON objects
MaxJsonItems == 2   \* most elements of the array of a JSON document
MaxKeyLen == 3      \* longest enumerated column name given to _clean_data
MaxNormRows == 2    \* most records in a record set that is normalized twice
MaxTxtLines == 3    \* most lines of a text file given to _read_txt
MaxLegacyRows == 101  \* most records given to the legacy and the new generator
MaxAdds == 2        \* most add_dialect calls in one behaviour
MaxRegRows == 1     \* most records generated from while the registry changes

(***************************************************************************)
(* Python str primitives.                                                  *)
(***************************************************************************)
Whitespace == {" ", "\t", "\n"}

\* str.upper() on one character (the letters the model uses; others are unchanged)
UpperChar(c) ==
    CASE c = "a" -> "A" [] c = "b" -> "B" [] c = "c" -> "C"
      [] c = "e" -> "E" [] c = "l" -> "L" [] c = "n" -> "N"
      [] c = "o" -> "O" [] c = "t" -> "T" [] c = "u" -> "U"
      [] c = "x" -> "X"
      [] OTHER -> c

Upper(s) == [i \in 1..Len(s) |-> UpperChar(s[i])]

RECURSIVE LStrip(_)
LStrip(s) == IF s # <<>> /\ Head(s) \in Whitespace THEN LStrip(Tail(s)) ELSE s

RECURSIVE RStrip(_)
RStrip(s) ==
    IF s # <<>> /\ s[Len(s)] \in Whitespace
    THEN RStrip(SubSeq(s, 1, Len(s) - 1))
    ELSE s

\* str.strip()
Strip(s) == RStrip(LStrip(s))

\* str.replace(old, new) for a one-character old
RECURSIVE Replace(_, _, _)
Replace(s, old, new) ==
    IF s = <<>> THEN <<>>
    ELSE (IF Head(s) = old THEN new ELSE <<Head(s)>>) \o Replace(Tail(s), old, new)

\* str.startswith(prefix)
StartsWith(s, prefix) ==
    Len(s) >= Len(prefix) /\ SubSeq(s, 1, Len(prefix)) = prefix

\* sep.join(parts)
RECURSIVE Join(_, _)
Join(parts, sep) ==
    IF parts = <<>> THEN <<>>
    ELSE IF Len(parts) = 1 THEN parts[1]
    ELSE LET half == Len(parts) \div 2
         IN  Join(SubSeq(parts, 1, half), sep) \o sep
             \o Join(SubSeq(parts, half + 1, Len(parts)), sep)

\* s.find(c): index of the first c in s (0 if none)
Find(s, c) ==
    IF \E i \in DOMAIN s : s[i] = c
    THEN CHOOSE i \in DOMAIN s : s[i] = c /\ \A h \in 1..(i - 1) : s[h] # c
    ELSE 0

\* s.split(sep) for a one-character sep: the pieces between the separators
Split(s, sep) ==
    LET P == {i \in DOMAIN s : s[i] = sep}
        n == Cardinality(P)
        pos(k) == CHOOSE i \in P : Cardinality({j \in P : j < i}) = k - 1
        first(k) == IF k = 1 THEN 1 ELSE pos(k - 1) + 1
        last(k) == IF k = n + 1 THEN Len(s) ELSE pos(k) - 1
    IN  [k \in 1..(n + 1) |-> SubSeq(s, first(k), last(k))]

\* x in list
InList(x, list) == \E i \in DOMAIN list : list[i] = x

\* str(n) for a small natural number
RECURSIVE IntStr(_)
IntStr(n) ==
    LET digit(k) == <<"0", "1", "2", "3", "4", "5", "6", "7", "8", "9">>[k + 1]
    IN  IF n < 10 THEN <<digit(n)>> ELSE IntStr(n \div 10) \o <<digit(n % 10)>>

(***************************************************************************)
(* Python values and dicts.                                                *)
(***************************************************************************)
None == [t |-> "none", s |-> <<"N", "o", "n", "e">>]
Str(s) == [t |-> "str", s |-> s]

Keys(d) == [i \in 1..Len(d) |-> d[i].k]
HasKey(d, k) == \E i \in DOMAIN d : d[i].k = k
Get(d, k) == d[CHOOSE i \in DOMAIN d : d[i].k = k].v
\* d[k] = v: an existing key keeps its position, a new key goes last
SetItem(d, k, v) ==
    IF HasKey(d, k)
    THEN [i \in 1..Len(d) |-> IF d[i].k = k THEN [k |-> k, v |-> v] ELSE d[i]]
    ELSE Append(d, [k |-> k, v |-> v])

(***************************************************************************)
(* String literals of src/src/sql/sql_generator.py.                        *)
(***************************************************************************)
TXT_NULL ==
    <<"N", "U", "L", "L">>
TXT_CREATE_COMMENT ==
    <<"-", "-", " ", "C", "R", "E", "A", "T", "E", " ", "T", "A", "B", "L", "E", " ", "s", "t", "a", "t", "e", "m", "e", "n", "t", " ", "f", "o", "r", " ", "t", "e", "m", "p", "o", "r", "a", "r", "y", " ", "t", "a", "b", "l", "e">>
TXT_CREATE_TABLE ==
    <<"C", "R", "E", "A", "T", "E", " ", "T", "A", "B", "L", "E", " ">>
TXT_OPEN ==
    <<" ", "(">>
TXT_INDENT ==
    <<" ", " ", " ", " ">>
TXT_NVARCHAR_NULL ==
    <<" ", "N", "V", "A", "R", "C", "H", "A", "R", "(", "M", "A", "X", ")", " ", "N", "U", "L", "L">>
TXT_TEXT_NULL ==
    <<" ", "T", "E", "X", "T", " ", "N", "U", "L", "L">>
TXT_CLOSE ==
    <<")", ";">>
TXT_INSERT_COMMENT ==
    <<"-", "-", " ", "I", "N", "S", "E", "R", "T", " ", "s", "t", "a", "t", "e", "m", "e", "n", "t", "s", ":">>
TXT_NO_DATA ==
    <<"-", "-", " ", "N", "o", " ", "d", "a", "t", "a", " ", "t", "o", " ", "i", "n", "s", "e", "r", "t">>
TXT_HEADER_TABLE ==
    <<"-", "-", " ", "G", "e", "n", "e", "r", "a", "t", "e", "d", " ", "S", "Q", "L", " ", "I", "N", "S", "E", "R", "T", " ", "s", "t", "a", "t", "e", "m", "e", "n", "t", "s", " ", "f", "o", "r", " ", "t", "a", "b", "l", "e", ":", " ">>
TXT_HEADER_ROWS ==
    <<"-", "-", " ", "T", "o", "t", "a", "l", " ", "r", "o", "w", "s", ":", " ">>
TXT_HEADER_NOTE ==
    <<"-", "-", " ", "N", "o", "t", "e", ":", " ", "E", "m", "p", "t", "y", " ", "v", "a", "l", "u", "e", "s", " ", "a", "r", "e", " ", "i", "n", "s", "e", "r", "t", "e", "d", " ", "a", "s", " ", "N", "U", "L", "L", " ", "(", "w", "i", "t", "h", "o", "u", "t", " ", "q", "u", "o", "t", "e", "s", ")">>
TXT_INSERT_INTO ==
    <<"I", "N", "S", "E", "R", "T", " ", "I", "N", "T", "O", " ">>
TXT_VALUES ==
    <<")", " ", "V", "A", "L", "U", "E", "S", " ", "(">>
TXT_COMMA ==
    <<",", " ">>
TXT_PROCESSED ==
    <<"-", "-", " ", "P", "r", "o", "c", "e", "s", "s", "e", "d", " ">>
TXT_ROWS ==
    <<" ", "r", "o", "w", "s">>

(***************************************************************************)
(* The dialect classes: format_value and create_table_statement.           *)
(***************************************************************************)
\* deliberately wrong variant: only None and the listed sentinels are NULL
RendersNull_listed_only(value, null_values) ==
    \/ value.t = "none"
    \/ (value.s # <<>> /\ InList(Upper(Strip(value.s)), null_values))

\* the test "value is None or value == '' or str(value).strip() == '' or
\* str(value).strip().upper() in null_values", the same in the three classes
RendersNull(value, null_values) ==
    \/ value.t = "none"
    \/ (value.t = "str" /\ value.s = <<>>)
    \/ Strip(value.s) = <<>>
    \/ InList(Upper(Strip(value.s)), null_values)

SQLServerDialect_format_value(value, null_values) ==
    IF RendersNull(value, null_values) THEN TXT_NULL
    ELSE <<"'">> \o Replace(value.s, "'", <<"'", "'">>) \o <<"'">>

\* deliberately wrong variant: the quote is doubled as in the other two dialects
MySQLDialect_format_value_doubling(value, null_values) ==
    IF RendersNull(value, null_values) THEN TXT_NULL
    ELSE <<"'">> \o Replace(value.s, "'", <<"'", "'">>) \o <<"'">>

MySQLDialect_format_value(value, null_values) ==
    IF RendersNull(value, null_values) THEN TXT_NULL
    ELSE <<"'">> \o Replace(value.s, "'", <<"\\", "'">>) \o <<"'">>

PostgreSQLDialect_format_value(value, null_values) ==
    IF RendersNull(value, null_values) THEN TXT_NULL
    ELSE <<"'">> \o Replace(value.s, "'", <<"'", "'">>) \o <<"'">>

\* the lines list built by the three create_table_statement methods, joined
CreateTableText(table_name, columns, type_null) ==
    Join(<<TXT_CREATE_COMMENT, TXT_CREATE_TABLE \o table_name \o TXT_OPEN>>
         \o [i \in 1..Len(columns) |-> TXT_INDENT \o columns[i] \o type_null]
         \o <<TXT_CLOSE, <<>>, TXT_INSERT_COMMENT, <<>>>>,
         <<"\n">>)

SQLServerDialect_create_table_statement(table_name, columns) ==
    CreateTableText(table_name, columns, TXT_NVARCHAR_NULL)

MySQLDialect_create_table_statement(table_name, columns) ==
    CreateTableText(table_name, columns, TXT_TEXT_NULL)

\* deliberately wrong variant: the column type of the SQL Server class
PostgreSQLDialect_create_table_statement_nvarchar(table_name, columns) ==
    CreateTableText(table_name, columns, TXT_NVARCHAR_NULL)

PostgreSQLDialect_create_table_statement(table_name, columns) ==
    CreateTableText(table_name, columns, TXT_TEXT_NULL)

DialectClasses == {"SQLServerDialect", "MySQLDialect", "PostgreSQLDialect"}

\* self.dialect.format_value(...): dispatch on the class of the dialect object
format_value(cls, value, null_values) ==
    CASE cls = "SQLServerDialect" -> SQLServerDialect_format_value(value, null_values)
      [] cls = "MySQLDialect" -> MySQLDialect_format_value(value, null_values)
      [] cls = "PostgreSQLDialect" -> PostgreSQLDialect_format_value(value, null_values)

\* self.dialect.create_table_statement(...)
create_table_statement(cls, table_name, columns) ==
    CASE cls = "SQLServerDialect" -> SQLServerDialect_create_table_statement(table_name, columns)
      [] cls = "MySQLDialect" -> MySQLDialect_create_table_statement(table_name, columns)
      [] cls = "PostgreSQLDialect" -> PostgreSQLDialect_create_table_statement(table_name, columns)

\* the default of the null_values parameter (sql_generator.py) and of the configuration
DefaultNullValues ==
    << <<>>, <<"N", "U", "L", "L">>, <<"n", "u", "l", "l">>,
       <<"N", "o", "n", "e">>, <<"n", "o", "n", "e">> >>

(***************************************************************************)
(* SQLGenerator.                                                           *)
(***************************************************************************)
\* an optional argument: <<>> is Python's None, <<x>> is the value x
NoneArg == <<>>
Some(x) == <<x>>

\* deliberately wrong variant: the header comes without the NULL note
_generate_header_short(table_name, row_count) ==
    << TXT_HEADER_TABLE \o table_name,
       TXT_HEADER_ROWS \o IntStr(row_count),
       <<>> >>

\* SQLGenerator._generate_header
_generate_header(table_name, row_count) ==
    << TXT_HEADER_TABLE \o table_name,
       TXT_HEADER_ROWS \o IntStr(row_count),
       TXT_HEADER_NOTE,
       <<>> >>

\* deliberately wrong variant: the values are taken in the key order of the row itself
InsertStatement_positional(cls, row, table_name, columns, null_values) ==
    LET values == [i \in 1..Len(columns) |-> format_value(cls, row[i].v, null_values)]
    IN  TXT_INSERT_INTO \o table_name \o <<" ", "(">> \o Join(columns, TXT_COMMA)
        \o TXT_VALUES \o Join(values, TXT_COMMA) \o <<")", ";">>

\* the values list and the f-string of the INSERT statement for one row
InsertStatement(cls, row, table_name, columns, null_values) ==
    LET values == [i \in 1..Len(columns) |->
                      format_value(cls, Get(row, columns[i]), null_values)]
    IN  TXT_INSERT_INTO \o table_name \o <<" ", "(">> \o Join(columns, TXT_COMMA)
        \o TXT_VALUES \o Join(values, TXT_COMMA) \o <<")", ";">>

\* deliberately wrong variant: the rows are counted from 0
IsBatchBoundary_from_zero(i, batch_size) == (i - 1) % batch_size = 0

\* "if i % self.batch_size == 0" for the 1-based row number i
IsBatchBoundary(i, batch_size) == i % batch_size = 0

\* the loop of _generate_insert_statements over the rows lo..hi: the lines
\* the loop appends for them, and the error that ended it.  row[col] raises
\* KeyError for a missing key and i % 0 raises ZeroDivisionError.  The
\* lines of lo..hi are those of the first half followed, unless the first
\* half raised, by those of the second half.
RECURSIVE InsertLoop(_, _, _, _, _, _, _, _)
InsertLoop(cls, batch_size, rows, table_name, columns, null_values, lo, hi) ==
    IF lo > hi THEN [raised |-> "", sql_lines |-> <<>>]
    ELSE IF lo = hi
    THEN IF \E c \in DOMAIN columns : ~HasKey(rows[lo], columns[c])
         THEN [raised |-> "KeyError", sql_lines |-> <<>>]
         ELSE LET stmt == InsertStatement(cls, rows[lo], table_name, columns, null_values)
              IN  IF batch_size = 0
                  THEN [raised |-> "ZeroDivisionError", sql_lines |-> <<stmt>>]
                  ELSE IF IsBatchBoundary(lo, batch_size)
                  THEN [raised |-> "",
                        sql_lines |-> <<stmt, TXT_PROCESSED \o IntStr(lo) \o TXT_ROWS>>]
                  ELSE [raised |-> "", sql_lines |-> <<stmt>>]
    ELSE LET mid == (lo + hi) \div 2
             first == InsertLoop(cls, batch_size, rows, table_name, columns,
                                 null_values, lo, mid)
             second == InsertLoop(cls, batch_size, rows, table_name, columns,
                                  null_values, mid + 1, hi)
         IN  IF first.raised # "" THEN first
             ELSE [raised |-> second.raised,
                   sql_lines |-> first.sql_lines \o second.sql_lines]

\* deliberately wrong variant: no more than max_rows_per_file rows are written
_generate_insert_statements_capped(self, rows, table_name, columns, null_values) ==
    InsertLoop(self.dialect, self.batch_size,
               rows, table_name, columns, null_values, 1,
               IF Len(rows) < config.max_rows_per_file THEN Len(rows)
               ELSE config.max_rows_per_file)

\* deliberately wrong variant: one batch of batch_size rows is written
_generate_insert_statements_one_batch(self, rows, table_name, columns, null_values) ==
    InsertLoop(self.dialect, self.batch_size,
               rows, table_name, columns, null_values, 1,
               IF Len(rows) < self.batch_size THEN Len(rows) ELSE self.batch_size)

\* SQLGenerator._generate_insert_statements
_generate_insert_statements(self, rows, table_name, columns, null_values) ==
    InsertLoop(self.dialect, self.batch_size, rows, table_name, columns, null_values,
               1, Len(rows))

\* deliberately wrong variant: the CREATE TABLE block also needs the include_create_table option
IsLocalTempTable_flag(table_name) ==
    /\ config.include_create_table
    /\ StartsWith(table_name, <<"#">>)
    /\ ~StartsWith(table_name, <<"#", "#">>)

\* table_name.startswith('#') and not table_name.startswith('##')
IsLocalTempTable(table_name) ==
    StartsWith(table_name, <<"#">>) /\ ~StartsWith(table_name, <<"#", "#">>)

\* deliberately wrong variant: no data is an error
NoDataResult_raises == [raised |-> "ValueError", text |-> <<>>, sql_lines |-> <<>>]

\* 'if not data: return "-- No data to insert"'
NoDataResult == [raised |-> "", text |-> TXT_NO_DATA, sql_lines |-> <<>>]

\* SQLGenerator.generate_inserts: [raised, text, sql_lines]; sql_lines is the
\* list that is joined into the returned text (no list is built for no data)
generate_inserts(self, rows, table_name, null_values_arg) ==
    IF rows = <<>>
    THEN NoDataResult
    ELSE LET null_values == IF null_values_arg = NoneArg THEN DefaultNullValues
                            ELSE null_values_arg[1]
             columns == Keys(rows[1])
             header == _generate_header(table_name, Len(rows))
             create ==
                 IF IsLocalTempTable(table_name)
                 THEN <<create_table_statement(self.dialect, table_name, columns)>>
                 ELSE <<>>
             inserts == _generate_insert_statements(self, rows, table_name, columns,
                                                    null_values)
         IN  IF inserts.raised # ""
             THEN [raised |-> inserts.raised, text |-> <<>>, sql_lines |-> <<>>]
             ELSE [raised |-> "",
                   text |-> Join(header \o create \o inserts.sql_lines, <<"\n">>),
                   sql_lines |-> header \o create \o inserts.sql_lines]

\* deliberately wrong variant: an unknown name falls back to the first registered class
_get_dialect_fallback(registry, dialect_name) ==
    IF HasKey(registry, dialect_name) THEN Get(registry, dialect_name) ELSE registry[1].v

\* SQLGenerator._get_dialect: the class registered under the name, or ""
\* when the name is not registered (the method then raises ValueError)
_get_dialect(registry, dialect_name) ==
    IF HasKey(registry, dialect_name) THEN Get(registry, dialect_name) ELSE ""

\* the message of the ValueError of _get_dialect: the f-string as the list of
\* its pieces, the registered names joined by ', '
UnsupportedDialectMessage(registry, dialect_name) ==
    <<"Unsupported SQL dialect '", dialect_name, "'. Available: ">>
    \o Join([i \in 1..Len(registry) |-> <<Keys(registry)[i]>>], <<", ">>)

\* the default of the batch_size parameter of SQLGenerator.__init__
DefaultBatchSize == 100

\* the batch_size a constructor call passes on: the argument, or the default
\* when the argument is left out
BatchSizeArg(arg) == IF arg = NoneArg THEN DefaultBatchSize ELSE arg[1]

\* the classes issubclass(cls, SQLDialect) holds for: the abstract class
\* itself and the three classes derived from it
SubclassesOfSQLDialect == DialectClasses \cup {"SQLDialect"}

\* SQLDialect declares both operations abstract and defines neither, so
\* calling the class raises TypeError
IsAbstract(cls) == cls = "SQLDialect"

\* deliberately wrong variant: a batch_size below 1 is refused
SQLGenerator_init_validating(registry, dialect_name, batch_size) ==
    IF batch_size < 1 \/ _get_dialect(registry, dialect_name) = ""
       \/ IsAbstract(_get_dialect(registry, dialect_name))
    THEN [raised |-> "ValueError",
          message |-> <<>>,
          self |-> [made |-> FALSE, dialect |-> "", batch_size |-> 0]]
    ELSE [raised |-> "",
          message |-> <<>>,
          self |-> [made |-> TRUE,
                    dialect |-> _get_dialect(registry, dialect_name),
                    batch_size |-> batch_size]]

\* SQLGenerator.__init__: the error raised, its message and the object built
SQLGenerator_init(registry, dialect_name, batch_size) ==
    IF _get_dialect(registry, dialect_name) = ""
    THEN [raised |-> "ValueError",
          message |-> UnsupportedDialectMessage(registry, dialect_name),
          self |-> [made |-> FALSE, dialect |-> "", batch_size |-> 0]]
    ELSE IF IsAbstract(_get_dialect(registry, dialect_name))
    THEN [raised |-> "TypeError",
          message |-> <<"Can't instantiate abstract class ",
                        _get_dialect(registry, dialect_name)>>,
          self |-> [made |-> FALSE, dialect |-> "", batch_size |-> 0]]
    ELSE [raised |-> "",
          message |-> <<>>,
          self |-> [made |-> TRUE,
                    dialect |-> _get_dialect(registry, dialect_name),
                    batch_size |-> batch_size]]

\* add_dialect that also rebinds the dialect of the generator it is called on
add_dialect_rebinding(self, registry, name, dialect_class) ==
    IF dialect_class \notin SubclassesOfSQLDialect
    THEN [raised |-> "ValueError",
          message |-> <<"Dialect class must inherit from SQLDialect">>,
          DIALECTS |-> registry, self |-> self]
    ELSE [raised |-> "", message |-> <<>>,
          DIALECTS |-> SetItem(registry, name, dialect_class),
          self |-> IF IsAbstract(dialect_class) THEN self
                   ELSE [self EXCEPT !.dialect = dialect_class]]

\* SQLGenerator.add_dialect: the error raised, the class-level registry and
\* the generator after the call
add_dialect(self, registry, name, dialect_class) ==
    IF dialect_class \notin SubclassesOfSQLDialect
    THEN [raised |-> "ValueError",
          message |-> <<"Dialect class must inherit from SQLDialect">>,
          DIALECTS |-> registry, self |-> self]
    ELSE [raised |-> "", message |-> <<>>,
          DIALECTS |-> SetItem(registry, name, dialect_class),
          self |-> self]

\* SQLGenerator.list_dialects
list_dialects(registry) == Keys(registry)

(***************************************************************************)
(* Initial values of the program state.                                    *)
(***************************************************************************)
\* SQLGenerator.DIALECTS as the class body sets it
BuiltinDialects ==
    << [k |-> "sqlserver", v |-> "SQLServerDialect"],
       [k |-> "mysql", v |-> "MySQLDialect"],
       [k |-> "postgresql", v |-> "PostgreSQLDialect"] >>

\* no SQLGenerator constructed yet
NoGenerator == [made |-> FALSE, dialect |-> "", batch_size |-> 0]

\* ConfigManager.DEFAULT_CONFIG, the options the pipeline reads
DEFAULT_CONFIG ==
    [ default_table_name |-> <<"t", "a", "b", "l", "e", "_", "n", "a", "m", "e">>,
      batch_size |-> 100,
      include_create_table |-> TRUE,
      sql_dialect |-> "sqlserver",
      null_values |-> DefaultNullValues,
      max_rows_per_file |-> 10000,
      verbose |-> TRUE ]

\* nothing read, nothing written
EmptyFs == [input_exists |-> FALSE, output_dir |-> FALSE, output_file |-> FALSE,
            content |-> <<>>]

NoArgs == [none |-> TRUE]
NoRet == [none |-> TRUE]

(***************************************************************************)
(* Inputs of the dialect operations.                                       *)
(***************************************************************************)
AllSeqs(S, n) == UNION {[1..k -> S] : k \in 0..n}

\* characters of the enumerated cell texts: a letter, the quote, the
\* backslash and a blank
CellAlphabet == {"a", "'", "\\", " "}

\* cell texts that spell the sentinels in several cases and paddings
SentinelTexts ==
    { <<"N", "U", "L", "L">>, <<"n", "u", "l", "l">>, <<"N", "u", "l", "l">>,
      <<"N", "o", "n", "e">>, <<"n", "o", "n", "e">>, <<"N", "O", "N", "E">>,
      <<" ", "n", "u", "l", "l", " ">>, <<"\t", "N", "U", "L", "L", "\n">>,
      <<"n", "/", "a">>, <<"N", "/", "A">>, <<" ", "N", "/", "a", " ">>,
      <<"n", "u", "l", "l", "'">> }

CellValues ==
    {None} \cup {Str(s) : s \in AllSeqs(CellAlphabet, MaxValueLen) \cup SentinelTexts}

SentinelLists ==
    { DefaultNullValues,
      <<>>,
      << <<"n", "/", "a">> >>,
      << <<"N", "/", "A">> >>,
      << <<"A">>, <<>> >> }

TableNames == { <<"t">>, <<"#", "t">>, <<"#", "#", "t">> }

ColumnNames == { <<"a">>, <<"b">>, <<"i", "d">> }

IsInjective(q) == \A i, j \in DOMAIN q : q[i] = q[j] => i = j

\* column lists: the keys of a dict, so without repetition
ColumnLists == {q \in AllSeqs(ColumnNames, Cardinality(ColumnNames)) : IsInjective(q)}

(***************************************************************************)
(* SpecDialect: one call of an operation of a dialect object.  The initial *)
(* state holds the call and its arguments, the action runs the method.     *)
(***************************************************************************)
FormatValueCalls ==
    [cls : DialectClasses, value : CellValues, null_values : SentinelLists]

CreateTableCalls ==
    [cls : DialectClasses, table_name : TableNames, columns : ColumnLists]

InitDialect ==
    /\ \/ op = "format_value" /\ args \in FormatValueCalls
       \/ op = "create_table_statement" /\ args \in CreateTableCalls
    /\ ret = NoRet
    /\ pc = "call"
    /\ DIALECTS = BuiltinDialects
    /\ generator = NoGenerator
    /\ source = <<>>
    /\ data = <<>>
    /\ config = DEFAULT_CONFIG
    /\ fs = EmptyFs

FormatValue ==
    /\ pc = "call"
    /\ op = "format_value"
    /\ ret' = format_value(args.cls, args.value, args.null_values)
    /\ pc' = "return"
    /\ UNCHANGED <<op, args, DIALECTS, generator, source, data, config, fs>>

CreateTableStatement ==
    /\ pc = "call"
    /\ op = "create_table_statement"
    /\ ret' = create_table_statement(args.cls, args.table_name, args.columns)
    /\ pc' = "return"
    /\ UNCHANGED <<op, args, DIALECTS, generator, source, data, config, fs>>

NextDialect == FormatValue \/ CreateTableStatement

SpecDialect == InitDialect /\ [][NextDialect]_vars

(***************************************************************************)
(* Claims about the dialect operations (checked under SpecDialect).        *)
(***************************************************************************)
FormatValueReturned == pc = "return" /\ op = "format_value"
CreateTableReturned == pc = "return" /\ op = "create_table_statement"

\* C1: with the default sentinel list, format_value of every dialect returns
\* the unquoted text NULL for "", "NULL", "null", "None", "none" and for
\* every value whose trimmed, upper-cased form is "NULL".
C1_DefaultSentinelsGiveNull ==
    ( /\ FormatValueReturned
      /\ args.null_values = DefaultNullValues
      /\ args.value.t = "str"
      /\ \/ InList(args.value.s, DefaultNullValues)
         \/ Upper(Strip(args.value.s)) = TXT_NULL )
    => ret = TXT_NULL

\* C2: format_value returns NULL exactly when the value is the NULL-marker,
\* or empty, or blank, or its trimmed upper-cased form equals the upper-cased
\* form of some sentinel (case-insensitive on both sides).
C2_NullIffSentinelIgnoringCase ==
    FormatValueReturned =>
        ( ret = TXT_NULL
          <=> \/ args.value.t = "none"
              \/ args.value.s = <<>>
              \/ Strip(args.value.s) = <<>>
              \/ \E i \in DOMAIN args.null_values :
                    Upper(Strip(args.value.s)) = Upper(args.null_values[i]) )

\* number of single quotes among the first n characters of v
QuotesBefore(v, n) == Cardinality({j \in 1..n : v[j] = "'"})

\* C3: a value that does not render as NULL is returned between exactly one
\* leading and one trailing single quote; each embedded single quote becomes
\* two characters (quote quote for sqlserver and postgresql, backslash quote
\* for mysql) and every other character is copied unchanged, in order.
C3_LiteralQuotedAndEscaped ==
    (FormatValueReturned /\ ret # TXT_NULL) =>
        LET v == args.value.s
            first == IF args.cls = "MySQLDialect" THEN "\\" ELSE "'"
            at(i) == 1 + i + QuotesBefore(v, i - 1)
        IN  /\ Len(ret) = Len(v) + QuotesBefore(v, Len(v)) + 2
            /\ ret[1] = "'"
            /\ ret[Len(ret)] = "'"
            /\ \A i \in 1..Len(v) :
                  IF v[i] = "'"
                  THEN ret[at(i)] = first /\ ret[at(i) + 1] = "'"
                  ELSE ret[at(i)] = v[i]

\* C3 witness: mysql has formatted a text holding a quote and a backslash
C3_Witness ==
    /\ FormatValueReturned
    /\ args.cls = "MySQLDialect"
    /\ ret # TXT_NULL
    /\ \E i, j \in DOMAIN args.value.s :
          args.value.s[i] = "'" /\ args.value.s[j] = "\\"

\* the type name the claim gives for each dialect
C10_TypeName(cls) ==
    IF cls = "SQLServerDialect"
    THEN <<"N", "V", "A", "R", "C", "H", "A", "R", "(", "M", "A", "X", ")">>
    ELSE <<"T", "E", "X", "T">>

\* C10: create_table_statement declares every column of the list exactly
\* once, in list order, as '<col> <TYPE> NULL' with NVARCHAR(MAX) for
\* sqlserver and TEXT for mysql and postgresql, between the line
\* 'CREATE TABLE <table_name> (' and the closing line ');'.
C10_CreateTableDeclaresColumns ==
    CreateTableReturned =>
        LET lines == Split(ret, "\n")
            n == Len(args.columns)
        IN  /\ Len(lines) >= n + 3
            /\ lines[2] = TXT_CREATE_TABLE \o args.table_name \o <<" ", "(">>
            /\ \A i \in 1..n :
                  Strip(lines[2 + i]) =
                      args.columns[i] \o <<" ">> \o C10_TypeName(args.cls)
                      \o <<" ", "N", "U", "L", "L">>
            /\ lines[n + 3] = <<")", ";">>
            /\ \A j \in (n + 4)..Len(lines) :
                  ~ \E i \in 1..n : StartsWith(Strip(lines[j]), args.columns[i] \o <<" ">>)

\* C10 witness: a statement for two or more columns was produced by
\* postgresql
C10_Witness ==
    /\ CreateTableReturned
    /\ args.cls = "PostgreSQLDialect"
    /\ Len(args.columns) >= 2

(***************************************************************************)
(* Spec: a caller constructs a SQLGenerator and calls generate_inserts on  *)
(* the record set it holds.                                                *)
(***************************************************************************)
\* cell values of the record sets given to the generator
GenValues == {None, Str(<<"x", "'">>)}

\* the null_values argument: left out, or a list that makes x' a sentinel
GenNullArgs == {NoneArg, Some(<< <<"X", "'">> >>)}

GenColumns == { <<"a">>, <<"b">> }
GenKeySets == { {<<"a">>}, GenColumns }

\* dicts over exactly the key set K, in every key order
DictsOver(K, V) ==
    {d \in [1..Cardinality(K) -> [k : K, v : V]] : {d[i].k : i \in DOMAIN d} = K}

\* record sets as a reader hands them over after validation: every record
\* has the same key set (the key order may differ between records)
UniformRecordSets(n) ==
    UNION {[1..m -> DictsOver(K, GenValues)] :
              m \in 0..n, K \in GenKeySets}

DialectNames == {"sqlserver", "mysql", "postgresql", "oracle"}

\* the caller's configuration: the two options no code of the generator
\* reads are at values that would change the output if they were read
ConfigVariants ==
    { [DEFAULT_CONFIG EXCEPT !.include_create_table = FALSE, !.max_rows_per_file = 1] }

Init ==
    /\ op = ""
    /\ args = NoArgs
    /\ ret = NoRet
    /\ pc = "idle"
    /\ DIALECTS = BuiltinDialects
    /\ generator = NoGenerator
    /\ source \in UniformRecordSets(MaxRows)
    /\ data = source
    /\ config \in ConfigVariants
    /\ fs = EmptyFs

\* SQLGenerator.__init__(dialect, batch_size)
Construct ==
    \E dialect_name \in DialectNames, batch_size \in 1..MaxBatch :
        /\ ~generator.made
        /\ op # "__init__"
        /\ op' = "__init__"
        /\ args' = [dialect |-> dialect_name, batch_size |-> batch_size]
        /\ LET made == SQLGenerator_init(DIALECTS, dialect_name, batch_size)
           IN  /\ ret' = [raised |-> made.raised, message |-> made.message]
               /\ generator' = IF made.raised = "" THEN made.self ELSE generator
        /\ UNCHANGED <<DIALECTS, source, data, pc, config, fs>>

\* SQLGenerator.generate_inserts(data, table_name, null_values); the call
\* changes no state, so one call per behaviour covers every call
GenerateInserts ==
    \E table_name \in TableNames, null_values \in GenNullArgs :
        /\ generator.made
        /\ op # "generate_inserts"
        /\ op' = "generate_inserts"
        /\ args' = [data |-> data, table_name |-> table_name, null_values |-> null_values]
        /\ ret' = generate_inserts(generator, data, table_name, null_values)
        /\ UNCHANGED <<DIALECTS, generator, source, data, pc, config, fs>>

Next == Construct \/ GenerateInserts

Spec == Init /\ [][Next]_vars

(***************************************************************************)
(* Claims about generate_inserts (checked under Spec).  The claims read    *)
(* the returned text line by line.                                         *)
(***************************************************************************)
GenerateReturned == op = "generate_inserts" /\ ret.raised = ""

OutputLines == Split(ret.text, "\n")

IsInsertLine(line) == StartsWith(line, TXT_INSERT_INTO)
IsProgressLine(line) == StartsWith(line, TXT_PROCESSED)
IsCreateTableLine(line) == StartsWith(line, TXT_CREATE_TABLE)

\* the names between the first "(" and the first ")" of an INSERT line
ParsedColumns(line) ==
    LET inner == SubSeq(line, Find(line, "(") + 1, Find(line, ")") - 1)
        parts == Split(inner, ",")
    IN  IF inner = <<>> THEN <<>> ELSE [i \in 1..Len(parts) |-> LStrip(parts[i])]

EndsWith(s, suffix) ==
    Len(s) >= Len(suffix) /\ SubSeq(s, Len(s) - Len(suffix) + 1, Len(s)) = suffix

\* the sentinel list in force for the call
NullValuesInForce ==
    IF args.null_values = NoneArg THEN DefaultNullValues ELSE args.null_values[1]

\* the text after VALUES that the claims expect for record r under the
\* column list cols
ExpectedValues(r, cols) ==
    TXT_VALUES
    \o Join([i \in 1..Len(cols) |->
                format_value(generator.dialect, Get(args.data[r], cols[i]),
                             NullValuesInForce)], <<",", " ">>)
    \o <<")", ";">>

\* C4: for a non-empty record set and batch interval N >= 1 there is exactly
\* one INSERT line per record, in record order; progress comments are
\* additional and no row cap (max_rows_per_file) is applied.
C4_OneInsertPerRecord ==
    (GenerateReturned /\ args.data # <<>> /\ generator.batch_size >= 1) =>
        LET lines == OutputLines
            ins == SelectSeq(lines, IsInsertLine)
        IN  /\ Len(ins) = Len(args.data)
            /\ \A r \in 1..Len(args.data) :
                  /\ StartsWith(ins[r], TXT_INSERT_INTO \o args.table_name \o <<" ">>)
                  /\ EndsWith(ins[r], ExpectedValues(r, Keys(args.data[1])))
            /\ \A i \in DOMAIN lines :
                  IsProgressLine(lines[i]) => i > 1 /\ IsInsertLine(lines[i - 1])

\* C4 witness: two records were written with a progress comment after each,
\* while max_rows_per_file is 1
C4_Witness ==
    /\ GenerateReturned
    /\ Len(args.data) = 2
    /\ generator.batch_size = 1
    /\ config.max_rows_per_file = 1
    /\ Len(SelectSeq(OutputLines, IsProgressLine)) = 2

\* C5: within one call the parenthesized column list is the same in every
\* INSERT, and the i-th value of each INSERT is format_value of that
\* record's value for the i-th column of the list.
C5_SameColumnsValuesByColumn ==
    (GenerateReturned /\ args.data # <<>>) =>
        LET ins == SelectSeq(OutputLines, IsInsertLine)
            cols == ParsedColumns(ins[1])
        IN  /\ Len(ins) = Len(args.data)
            /\ \A r \in 1..Len(ins) :
                  /\ ParsedColumns(ins[r]) = cols
                  /\ EndsWith(ins[r], ExpectedValues(r, cols))

\* C5 witness: two records were written whose keys are in different orders
\* and whose two values differ
C5_Witness ==
    /\ GenerateReturned
    /\ Len(args.data) = 2
    /\ Len(args.data[2]) = 2
    /\ Keys(args.data[1]) # Keys(args.data[2])
    /\ args.data[2][1].v # args.data[2][2].v

\* the table name starts with exactly one '#'
StartsWithOneHash(name) ==
    Len(name) >= 1 /\ name[1] = "#" /\ (Len(name) >= 2 => name[2] # "#")

\* the lines that open a CREATE TABLE block
CreateTableAt(lines) == {k \in DOMAIN lines : IsCreateTableLine(lines[k])}

\* every CREATE TABLE block of the output is the active dialect's and
\* declares the columns of the INSERT lines in their order
CreateBlockMatchesInserts(lines) ==
    \A k \in CreateTableAt(lines) :
        LET cols == ParsedColumns(SelectSeq(lines, IsInsertLine)[1])
        IN  /\ lines[k] = TXT_CREATE_TABLE \o args.table_name \o <<" ", "(">>
            /\ Len(lines) > k + Len(cols)
            /\ \A i \in 1..Len(cols) :
                  Strip(lines[k + i]) =
                      cols[i] \o <<" ">> \o C10_TypeName(generator.dialect)
                      \o <<" ", "N", "U", "L", "L">>
            /\ lines[k + Len(cols) + 1] = <<")", ";">>

IsHeaderLine(line) ==
    \/ StartsWith(line, TXT_HEADER_TABLE)
    \/ StartsWith(line, TXT_HEADER_ROWS)
    \/ line = TXT_HEADER_NOTE

\* C12: for the empty record set generate_inserts raises no error and
\* returns exactly the one line "-- No data to insert": no header, no CREATE
\* TABLE block and no INSERT, for every table name, dialect and batch
\* interval.
C12_EmptySetGivesSentinelLine ==
    (op = "generate_inserts" /\ args.data = <<>>) =>
        /\ ret.raised = ""
        /\ ret.text = TXT_NO_DATA
        /\ LET lines == OutputLines
           IN  /\ Len(lines) = 1
               /\ \A k \in DOMAIN lines :
                     /\ ~IsHeaderLine(lines[k])
                     /\ ~IsCreateTableLine(lines[k])
                     /\ ~IsInsertLine(lines[k])
                     /\ ~IsProgressLine(lines[k])

\* C12 witness: the empty record set was written for a '#' table by the
\* MySQL dialect with interval 2
C12_Witness ==
    /\ op = "generate_inserts"
    /\ args.data = <<>>
    /\ args.table_name = <<"#", "t">>
    /\ generator.dialect = "MySQLDialect"
    /\ generator.batch_size = 2

\* C13: for a non-empty record set and batch interval N >= 1 the call
\* returns, and its output is the three header comment lines (table name,
\* total row count, NULL note), then the CREATE TABLE block if there is one,
\* then the INSERT lines; no header or CREATE TABLE line comes after the
\* first INSERT, and the text is the emitted lines joined by newlines in the
\* order of emission.
C13_HeaderCreateInsertOrder ==
    (op = "generate_inserts" /\ args.data # <<>> /\ generator.batch_size >= 1) =>
        /\ ret.raised = ""
        /\ LET lines == OutputLines
               insAt == {k \in DOMAIN lines : IsInsertLine(lines[k])}
               first == CHOOSE k \in insAt : \A j \in insAt : k <= j
           IN  /\ insAt # {}
               /\ lines[1] = TXT_HEADER_TABLE \o args.table_name
               /\ lines[2] = TXT_HEADER_ROWS \o IntStr(Len(args.data))
               /\ lines[3] = TXT_HEADER_NOTE
               /\ \A k \in DOMAIN lines : IsHeaderLine(lines[k]) => k <= 3
               /\ \A k \in CreateTableAt(lines) : 3 < k /\ k < first
               /\ \A k \in DOMAIN lines :
                     k >= first => IsInsertLine(lines[k]) \/ IsProgressLine(lines[k])
               /\ ret.text = Join(ret.sql_lines, <<"\n">>)

\* C13 witness: two records were written after a header and a CREATE TABLE
\* block
C13_Witness ==
    /\ GenerateReturned
    /\ Len(args.data) = 2
    /\ CreateTableAt(OutputLines) # {}
    /\ Len(SelectSeq(OutputLines, IsInsertLine)) = 2

(***************************************************************************)
(* SpecBatch: a caller constructs a SQLGenerator with a batch interval, or *)
(* with the default one, and writes a record set of one column with it.    *)
(***************************************************************************)
\* record r of a one-column record set: its value names the record, or is
\* missing
BatchRecords(r) ==
    { <<[k |-> <<"a">>, v |-> v]>> : v \in {None, Str(<<"v">> \o IntStr(r))} }

BatchRecordSets(n) ==
    UNION {{q \in [1..m -> UNION {BatchRecords(r) : r \in 1..m}] :
               \A r \in 1..m : q[r] \in BatchRecords(r)} : m \in 0..n}

\* the batch_size argument: left out, or an interval
BatchArgs == {NoneArg} \cup {Some(b) : b \in 1..MaxBatch}

InitBatch ==
    /\ op = ""
    /\ args = NoArgs
    /\ ret = NoRet
    /\ pc = "idle"
    /\ DIALECTS = BuiltinDialects
    /\ generator = NoGenerator
    /\ source \in BatchRecordSets(MaxBatchRows)
    /\ data = source
    /\ config = DEFAULT_CONFIG
    /\ fs = EmptyFs

\* SQLGenerator(dialect) or SQLGenerator(dialect, batch_size)
ConstructWithInterval ==
    \E dialect_name \in {"sqlserver", "mysql", "postgresql"}, batch_arg \in BatchArgs :
        /\ ~generator.made
        /\ LET made == SQLGenerator_init(DIALECTS, dialect_name, BatchSizeArg(batch_arg))
           IN  /\ op' = "__init__"
               /\ args' = [dialect |-> dialect_name, batch_size |-> batch_arg]
               /\ ret' = [raised |-> made.raised, message |-> made.message]
               /\ generator' = made.self
        /\ UNCHANGED <<DIALECTS, source, data, pc, config, fs>>

\* generate_inserts(data, table_name) with the default sentinels; the call
\* changes no state, so one call per behaviour covers every call
GenerateBatch ==
    \E table_name \in TableNames :
        /\ generator.made
        /\ op # "generate_inserts"
        /\ op' = "generate_inserts"
        /\ args' = [data |-> data, table_name |-> table_name, null_values |-> NoneArg]
        /\ ret' = generate_inserts(generator, data, table_name, NoneArg)
        /\ UNCHANGED <<DIALECTS, generator, source, data, pc, config, fs>>

NextBatch == ConstructWithInterval \/ GenerateBatch

SpecBatch == InitBatch /\ [][NextBatch]_vars

(***************************************************************************)
(* Claims about the progress comments (checked under SpecBatch).           *)
(***************************************************************************)
\* the position of the i-th INSERT line
InsertLineAt(lines, i) ==
    LET insAt == {k \in DOMAIN lines : IsInsertLine(lines[k])}
    IN  CHOOSE k \in insAt : Cardinality({j \in insAt : j < k}) = i - 1

\* C14: for batch interval N >= 1 and n records the comment
\* "-- Processed <i> rows" comes right after the i-th INSERT exactly when i
\* is a positive multiple of N and nowhere else, so there are n div N of
\* them; a generator constructed without an interval has the interval 100.
C14_ProgressAtMultiples ==
    /\ (op = "__init__" /\ args.batch_size = NoneArg) => generator.batch_size = 100
    /\ (GenerateReturned /\ args.data # <<>> /\ generator.batch_size >= 1) =>
          LET lines == OutputLines
              n == Len(args.data)
              N == generator.batch_size
          IN  /\ Len(SelectSeq(lines, IsInsertLine)) = n
              /\ \A i \in 1..n :
                    LET k == InsertLineAt(lines, i)
                    IN  IF i % N = 0
                        THEN /\ k < Len(lines)
                             /\ lines[k + 1] = TXT_PROCESSED \o IntStr(i) \o TXT_ROWS
                        ELSE k < Len(lines) => ~IsProgressLine(lines[k + 1])
              /\ \A k \in DOMAIN lines :
                    IsProgressLine(lines[k]) => k > 1 /\ IsInsertLine(lines[k - 1])
              /\ Len(SelectSeq(lines, IsProgressLine)) = n \div N

\* C14 witness: three records were written with interval 2, so the only
\* progress comment follows the second INSERT
C14_Witness ==
    /\ GenerateReturned
    /\ Len(args.data) = 3
    /\ generator.batch_size = 2
    /\ Len(SelectSeq(OutputLines, IsProgressLine)) = 1

\* the lines that are not progress comments
WithoutProgress(lines) == SelectSeq(lines, LAMBDA l : ~IsProgressLine(l))

\* the batch intervals a generator can be constructed with
Intervals == {BatchSizeArg(b) : b \in BatchArgs}

\* C15: the batch interval does not change the statements: for the same
\* record set, table name and dialect, the outputs under any two intervals
\* N, M >= 1 are the same once the progress comments are removed.
C15_IntervalKeepsStatements ==
    GenerateReturned =>
        \A M \in Intervals :
            LET other == generate_inserts([generator EXCEPT !.batch_size = M],
                                          args.data, args.table_name, args.null_values)
            IN  /\ other.raised = ""
                /\ WithoutProgress(Split(other.text, "\n")) = WithoutProgress(OutputLines)

\* C15 witness: three records were written with interval 1, so that the
\* output has three progress comments that the output under interval 100
\* does not have
C15_Witness ==
    /\ GenerateReturned
    /\ Len(args.data) = 3
    /\ generator.batch_size = 1
    /\ Len(SelectSeq(OutputLines, IsProgressLine)) = 3
    /\ DefaultBatchSize \in Intervals

(***************************************************************************)
(* DataReader.validate_data (reconciliation of the record shapes).         *)
(***************************************************************************)
\* all_keys: the union of the keys of all rows
AllKeys(rows) == UNION {{rows[r][i].k : i \in DOMAIN rows[r]} : r \in DOMAIN rows}

\* the orders in which iterating over a Python set of strings can yield its
\* elements: the order follows the randomized string hashes
IterationOrders(S) == {q \in [1..Cardinality(S) -> S] : IsInjective(q)}

\* "for key in all_keys: if key not in row: row[key] = None" for one row,
\* the set being iterated in the given order from position i on
RECURSIVE PadRow(_, _, _)
PadRow(row, order, i) ==
    IF i > Len(order) THEN row
    ELSE PadRow(IF HasKey(row, order[i]) THEN row ELSE SetItem(row, order[i], None),
                order, i + 1)

\* deliberately wrong variant: the key set is taken from the first row only
validate_data_first_row_keys(rows, order) ==
    IF rows = <<>> THEN [result |-> FALSE, rows |-> rows]
    ELSE IF Len(rows) > 1
    THEN [result |-> TRUE,
          rows |-> [r \in 1..Len(rows) |->
                       PadRow(rows[r], SelectSeq(order, LAMBDA k : HasKey(rows[1], k)), 1)]]
    ELSE [result |-> TRUE, rows |-> rows]

\* DataReader.validate_data: the returned flag and the rows as the call
\* leaves them (it pads the dicts of the caller's list in place)
validate_data(rows, order) ==
    IF rows = <<>> THEN [result |-> FALSE, rows |-> rows]
    ELSE IF Len(rows) > 1
    THEN [result |-> TRUE,
          rows |-> [r \in 1..Len(rows) |-> PadRow(rows[r], order, 1)]]
    ELSE [result |-> TRUE, rows |-> rows]

\* set(row.keys())
KeySet(row) == {row[i].k : i \in DOMAIN row}

\* CSVReader.validate_data: every row has the key set of the first row
CSVReader_validate_data(rows) ==
    /\ rows # <<>>
    /\ \A r \in 2..Len(rows) : KeySet(rows[r]) = KeySet(rows[1])

(***************************************************************************)
(* SpecReader: the records of a file are validated by a reader (reconciled *)
(* by DataReader.validate_data, or checked by CSVReader.validate_data) and *)
(* then written by generate_inserts.                                       *)
(***************************************************************************)
RecColumns == { <<"a">>, <<"b">>, <<"c">> }

\* the key orders of one record: any keys, in any order
RecKeyOrders == {q \in AllSeqs(RecColumns, Cardinality(RecColumns)) : IsInjective(q)}

\* record r with the given keys; the value names the key and the record
RecordWith(q, r) == [i \in 1..Len(q) |-> [k |-> q[i], v |-> Str(q[i] \o IntStr(r))]]

\* record sets whose records may have different keys
MixedRecordSets(n) ==
    UNION {{[r \in 1..m |-> RecordWith(qs[r], r)] : qs \in [1..m -> RecKeyOrders]} :
              m \in 0..n}

\* the generator the application builds from the default configuration
DefaultGenerator ==
    [made |-> TRUE,
     dialect |-> _get_dialect(BuiltinDialects, DEFAULT_CONFIG.sql_dialect),
     batch_size |-> DEFAULT_CONFIG.batch_size]

InitReader ==
    /\ op = "read_file"
    /\ args = NoArgs
    /\ ret = NoRet
    /\ pc = "read"
    /\ DIALECTS = BuiltinDialects
    /\ generator = DefaultGenerator
    /\ source \in MixedRecordSets(MaxRecs)
    /\ data = source
    /\ config = DEFAULT_CONFIG
    /\ fs = EmptyFs

\* reader.validate_data(data)
ValidateData ==
    \E order \in IterationOrders(AllKeys(data)) :
        LET out == validate_data(data, order)
        IN  /\ pc = "read"
            /\ op' = "validate_data"
            /\ args' = [data |-> data]
            /\ ret' = [result |-> out.result]
            /\ data' = out.rows
            /\ pc' = IF out.result THEN "validated" ELSE "invalid"
            /\ UNCHANGED <<DIALECTS, generator, source, config, fs>>

\* sql_generator.generate_inserts(data, table_name, null_values) on the
\* validated records, with the table name and the sentinels of the
\* configuration
GenerateValidated ==
    /\ pc = "validated"
    /\ op' = "generate_inserts"
    /\ args' = [data |-> data, table_name |-> config.default_table_name,
                null_values |-> Some(config.null_values)]
    /\ ret' = generate_inserts(generator, data, config.default_table_name,
                               Some(config.null_values))
    /\ pc' = "generated"
    /\ UNCHANGED <<DIALECTS, generator, source, data, config, fs>>

\* csv_reader.validate_data(data), the check the application makes: the
\* rows are left as they are
CSVValidateData ==
    /\ pc = "read"
    /\ op' = "CSVReader.validate_data"
    /\ args' = [data |-> data]
    /\ ret' = [result |-> CSVReader_validate_data(data)]
    /\ pc' = IF CSVReader_validate_data(data) THEN "validated" ELSE "invalid"
    /\ UNCHANGED <<DIALECTS, generator, source, data, config, fs>>

NextReader == ValidateData \/ CSVValidateData \/ GenerateValidated

SpecReader == InitReader /\ [][NextReader]_vars

(***************************************************************************)
(* Claims about reconciliation (checked under SpecReader).                 *)
(***************************************************************************)
\* the keys of the rows from row r on, in first-occurrence order, after seen
RECURSIVE FirstSeenFrom(_, _, _)
FirstSeenFrom(rows, r, seen) ==
    IF r > Len(rows) THEN seen
    ELSE FirstSeenFrom(rows, r + 1,
                       seen \o SelectSeq(Keys(rows[r]), LAMBDA k : ~InList(k, seen)))

\* the union of all records' keys in first-occurrence order, deduplicated
FirstSeenUnion(rows) == FirstSeenFrom(rows, 1, <<>>)

\* C6: the column order used after reconciliation (validate_data, then
\* generate_inserts) is the union of all records' keys in first-occurrence
\* order across the sequence, deduplicated.
C6_ColumnsInFirstSeenOrder ==
    (pc = "generated" /\ GenerateReturned) =>
        LET ins == SelectSeq(OutputLines, IsInsertLine)
        IN  \A r \in DOMAIN ins : ParsedColumns(ins[r]) = FirstSeenUnion(source)

\* C7: after validate_data on a non-empty record set every record has the
\* same key set, the union of all keys; a key that was missing maps to the
\* NULL-marker; a value that was present is unchanged; the number and the
\* order of the records are unchanged.
C7_ReconcileFrame ==
    (op = "validate_data" /\ source # <<>>) =>
        /\ ret.result
        /\ Len(data) = Len(source)
        /\ \A r \in DOMAIN data :
              /\ IsInjective(Keys(data[r]))
              /\ KeySet(data[r]) = AllKeys(source)
              /\ \A k \in AllKeys(source) :
                    Get(data[r], k) = IF HasKey(source[r], k) THEN Get(source[r], k) ELSE None

\* C7 witness: two records with different keys were reconciled, and the
\* first one was padded
C7_Witness ==
    /\ op = "validate_data"
    /\ Len(source) = 2
    /\ KeySet(source[1]) # KeySet(source[2])
    /\ KeySet(source[2]) \ KeySet(source[1]) # {}
    /\ KeySet(source[1]) \ KeySet(source[2]) # {}

\* C17: validation of a record set fails only when the set is empty: for
\* every non-empty record set, also one whose records have different key
\* sets, validate_data succeeds and the records go on to generation.
C17_ValidationFailsOnlyWhenEmpty ==
    (op \in {"validate_data", "CSVReader.validate_data"}) =>
        /\ ret.result <=> source # <<>>
        /\ source # <<>> => pc = "validated"

(***************************************************************************)
(* SpecPipeline: as SpecReader, for record sets over two columns whose     *)
(* values may be the empty string.                                         *)
(***************************************************************************)
PipeColumns == { <<"a">>, <<"b">> }

PipeKeyOrders == {q \in AllSeqs(PipeColumns, Cardinality(PipeColumns)) : IsInjective(q)}

\* the records at position r: any keys in any order, each value the empty
\* string or the number of the record
PipeRecords(r) ==
    UNION {{[i \in 1..Len(q) |-> [k |-> q[i], v |-> vs[i]]] :
               vs \in [1..Len(q) -> {Str(<<>>), Str(IntStr(r))}]} : q \in PipeKeyOrders}

PipeRecordSets(n) ==
    UNION {{rows \in [1..m -> UNION {PipeRecords(r) : r \in 1..m}] :
               \A r \in 1..m : rows[r] \in PipeRecords(r)} : m \in 0..n}

InitPipeline ==
    /\ op = "read_file"
    /\ args = NoArgs
    /\ ret = NoRet
    /\ pc = "read"
    /\ DIALECTS = BuiltinDialects
    /\ generator = DefaultGenerator
    /\ source \in PipeRecordSets(MaxPipeRows)
    /\ data = source
    /\ config = DEFAULT_CONFIG
    /\ fs = EmptyFs

SpecPipeline == InitPipeline /\ [][NextReader]_vars

(***************************************************************************)
(* Claims about validate_data followed by generate_inserts (checked under  *)
(* SpecPipeline).                                                          *)
(***************************************************************************)
\* the literal the claim expects for the value of column col in record r of
\* the source: NULL for a missing key and for the empty string
C16_Expected(r, col) ==
    IF ~HasKey(source[r], col) \/ Get(source[r], col) = Str(<<>>)
    THEN <<"N", "U", "L", "L">>
    ELSE <<"'">> \o Get(source[r], col).s \o <<"'">>

\* C16: after validate_data and generate_inserts with the default
\* sentinels there is one INSERT per record; a key that the record lacks
\* but another record has, and a key whose value is the empty string, are
\* both written as unquoted NULL at the position of the key in the shared
\* column list.
C16_MissingAndEmptyGiveNull ==
    (pc = "generated" /\ op = "generate_inserts") =>
        /\ ret.raised = ""
        /\ args.null_values = Some(DefaultNullValues)
        /\ LET ins == SelectSeq(OutputLines, IsInsertLine)
               cols == ParsedColumns(ins[1])
           IN  /\ Len(ins) = Len(source)
               /\ {cols[i] : i \in DOMAIN cols} = AllKeys(source)
               /\ \A r \in DOMAIN ins :
                     /\ ParsedColumns(ins[r]) = cols
                     /\ EndsWith(ins[r],
                                 TXT_VALUES
                                 \o Join([i \in DOMAIN cols |-> C16_Expected(r, cols[i])],
                                         <<",", " ">>)
                                 \o <<")", ";">>)

\* C16 witness: the rows [{a: "1", b: ""}, {a: "2"}] were reconciled and
\* written
C16_Witness ==
    /\ pc = "generated"
    /\ op = "generate_inserts"
    /\ source = << << [k |-> <<"a">>, v |-> Str(<<"1">>)],
                      [k |-> <<"b">>, v |-> Str(<<>>)] >>,
                   << [k |-> <<"a">>, v |-> Str(<<"2">>)] >> >>
    /\ Len(data[2]) = 2

(***************************************************************************)
(* DataReader: JSON documents.  A parsed JSON value is a scalar [t, s] (t  *)
(* the Python type, s the text str() gives), a list [t, items] or a dict   *)
(* [t, items] whose items are its [k, v] entries in document order.        *)
(***************************************************************************)
JInt(n) == [t |-> "int", s |-> IntStr(n)]
JBool(b) == [t |-> "bool", s |-> IF b THEN <<"T", "r", "u", "e">>
                                      ELSE <<"F", "a", "l", "s", "e">>]
JList(items) == [t |-> "list", items |-> items]
JDict(entries) == [t |-> "dict", items |-> entries]

\* the character U+FEFF
BOM == "U+FEFF"

\* flattened.update(nested): the entries of nested are set in their order
RECURSIVE Update(_, _, _)
Update(d, other, i) ==
    IF i > Len(other) THEN d
    ELSE Update(SetItem(d, other[i].k, other[i].v), other, i + 1)

\* the loop of _flatten_json_object over the entries of obj from entry i on
RECURSIVE FlattenFrom(_, _, _, _)
FlattenFrom(entries, parent_key, i, flattened) ==
    IF i > Len(entries) THEN flattened
    ELSE LET key == entries[i].k
             value == entries[i].v
             new_key == IF parent_key # <<>> THEN parent_key \o <<"_">> \o key ELSE key
         IN  FlattenFrom(entries, parent_key, i + 1,
                 IF value.t = "dict"
                 THEN Update(flattened, FlattenFrom(value.items, new_key, 1, <<>>), 1)
                 ELSE IF value.t = "list"
                 THEN SetItem(flattened, new_key, None)
                 ELSE SetItem(flattened, new_key, value))

\* DataReader._flatten_json_object(obj, parent_key)
_flatten_json_object(obj, parent_key) == FlattenFrom(obj.items, parent_key, 1, <<>>)

\* key.strip().replace('\ufeff', '')
CleanKey(key) == Replace(Strip(key), BOM, <<>>)

\* the inner loop of _clean_data over the entries of one row
RECURSIVE CleanRow(_, _, _)
CleanRow(row, i, cleaned_row) ==
    IF i > Len(row) THEN cleaned_row
    ELSE CleanRow(row, i + 1, SetItem(cleaned_row, CleanKey(row[i].k), row[i].v))

\* DataReader._clean_data
_clean_data(rows) == [r \in 1..Len(rows) |-> CleanRow(rows[r], 1, <<>>)]

\* DataReader._read_json on the parsed document: [raised, rows]
_read_json(json_data) ==
    IF json_data.t = "list"
    THEN LET objects == SelectSeq(json_data.items, LAMBDA item : item.t = "dict")
         IN  [raised |-> "",
              rows |-> _clean_data([i \in 1..Len(objects) |->
                                       _flatten_json_object(objects[i], <<>>)])]
    ELSE IF json_data.t = "dict"
    THEN [raised |-> "", rows |-> _clean_data(<<_flatten_json_object(json_data, <<>>)>>)]
    ELSE [raised |-> "Exception", rows |-> <<>>]

(***************************************************************************)
(* SpecFlatten: one call of _flatten_json_object on a parsed JSON object.  *)
(***************************************************************************)
\* the values that are not objects: a number, a list and the empty list
JsonLeaves == {JInt(1), JList(<<Str(<<"a">>), Str(<<"b">>)>>), JList(<<>>)}

Entry(k, v) == [k |-> k, v |-> v]

\* objects over the keys a and b nested to depth d (under a)
RECURSIVE NestedObjects(_)
NestedObjects(d) ==
    IF d = 0 THEN {}
    ELSE LET A == JsonLeaves \cup NestedObjects(d - 1)
         IN  {JDict(<<>>)}
             \cup {JDict(<<Entry(<<"a">>, a)>>) : a \in A}
             \cup {JDict(<<Entry(<<"b">>, b)>>) : b \in JsonLeaves}
             \cup {JDict(<<Entry(<<"a">>, a), Entry(<<"b">>, b)>>) : a \in A, b \in JsonLeaves}
             \cup {JDict(<<Entry(<<"b">>, b), Entry(<<"a">>, a)>>) : a \in A, b \in JsonLeaves}

\* {"user": {"id": 1, "tags": ["a", "b"]}}
UserObject ==
    JDict(<<Entry(<<"u", "s", "e", "r">>,
                  JDict(<<Entry(<<"i", "d">>, JInt(1)),
                          Entry(<<"t", "a", "g", "s">>,
                                JList(<<Str(<<"a">>), Str(<<"b">>)>>))>>))>>)

\* objects with the key a_b next to the nested a.b, and with empty keys
SpecialObjects ==
    { UserObject,
      JDict(<<Entry(<<"a", "_", "b">>, JInt(1)),
              Entry(<<"a">>, JDict(<<Entry(<<"b">>, JInt(2))>>))>>),
      JDict(<<Entry(<<"a">>, JDict(<<Entry(<<"b">>, JInt(2))>>)),
              Entry(<<"a", "_", "b">>, JList(<<>>))>>),
      JDict(<<Entry(<<>>, JDict(<<Entry(<<"a">>, JInt(1))>>))>>),
      JDict(<<Entry(<<"a">>, JDict(<<Entry(<<>>, JInt(1))>>))>>) }

FlattenObjects == NestedObjects(MaxJsonDepth) \cup SpecialObjects

InitFlatten ==
    /\ op = "_flatten_json_object"
    /\ args \in [obj : FlattenObjects]
    /\ ret = NoRet
    /\ pc = "call"
    /\ DIALECTS = BuiltinDialects
    /\ generator = NoGenerator
    /\ source = <<>>
    /\ data = <<>>
    /\ config = DEFAULT_CONFIG
    /\ fs = EmptyFs

FlattenJsonObject ==
    /\ pc = "call"
    /\ ret' = _flatten_json_object(args.obj, <<>>)
    /\ pc' = "return"
    /\ UNCHANGED <<op, args, DIALECTS, generator, source, data, config, fs>>

NextFlatten == FlattenJsonObject

SpecFlatten == InitFlatten /\ [][NextFlatten]_vars

(***************************************************************************)
(* Claims about _flatten_json_object (checked under SpecFlatten).          *)
(***************************************************************************)
\* the key paths k1, ..., kn that lead to the values of obj that are not
\* mappings
RECURSIVE LeafPaths(_)
LeafPaths(entries) ==
    UNION {IF entries[i].v.t = "dict"
           THEN {<<entries[i].k>> \o p : p \in LeafPaths(entries[i].v.items)}
           ELSE {<<entries[i].k>>} : i \in DOMAIN entries}

\* the value at the end of a key path
RECURSIVE LeafAt(_, _)
LeafAt(entries, path) ==
    LET v == Get(entries, Head(path))
    IN  IF Len(path) = 1 THEN v ELSE LeafAt(v.items, Tail(path))

\* the name k1_k2_..._kn of a key path; the prefix and the underscore are
\* added only when the name so far is not empty
RECURSIVE PathName(_, _)
PathName(path, parent) ==
    IF path = <<>> THEN parent
    ELSE PathName(Tail(path),
                  IF parent # <<>> THEN parent \o <<"_">> \o Head(path) ELSE Head(path))

\* C18: flattening a nested object gives one flat record that has, for each
\* leaf reached through the keys k1, ..., kn, the name k1_k2_..._kn, and
\* nothing else; under that name a leaf that is a sequence is the
\* NULL-marker and any other leaf is the leaf's value.
C18_FlattenNamesLeaves ==
    (op = "_flatten_json_object" /\ pc = "return") =>
        LET paths == LeafPaths(args.obj.items)
        IN  /\ IsInjective(Keys(ret))
            /\ KeySet(ret) = {PathName(p, <<>>) : p \in paths}
            /\ \A p \in paths :
                  LET leaf == LeafAt(args.obj.items, p)
                  IN  Get(ret, PathName(p, <<>>)) = IF leaf.t = "list" THEN None ELSE leaf

(***************************************************************************)
(* SpecJson: a parsed JSON document is read by _read_json (flatten, then   *)
(* clean), reconciled by validate_data and written by generate_inserts.    *)
(* source is the document as json.load returns it.                         *)
(***************************************************************************)
\* elements of the array of a document: objects with a number, a string, a
\* nested object, a list, an empty nested object, the key a_b next to the
\* nested a.b, the keys " a" and "a"; and a number, which is not an object
JsonItems ==
    { JDict(<<Entry(<<"a">>, JInt(1))>>),
      JDict(<<Entry(<<"b">>, Str(<<"x">>))>>),
      JInt(5),
      JDict(<<Entry(<<"a">>, JDict(<<>>))>>),
      JDict(<<Entry(<<"a", "_", "b">>, JInt(1)),
              Entry(<<"a">>, JDict(<<Entry(<<"b">>, JInt(2))>>))>>),
      JDict(<<Entry(<<" ", "a">>, JInt(1)), Entry(<<"a">>, Str(<<"x">>))>>),
      JDict(<<Entry(<<"a">>, JDict(<<Entry(<<"b">>, JBool(TRUE))>>)),
              Entry(<<"b">>, JList(<<>>))>>) }

\* documents: an array of elements, a single object, or a bare number
JsonDocuments ==
    {JList(items) : items \in AllSeqs(JsonItems, MaxJsonItems)} \cup JsonItems

InitJson ==
    /\ op = "json.load"
    /\ args = NoArgs
    /\ ret = NoRet
    /\ pc = "parsed"
    /\ DIALECTS = BuiltinDialects
    /\ generator = DefaultGenerator
    /\ source \in JsonDocuments
    /\ data = <<>>
    /\ config = DEFAULT_CONFIG
    /\ fs = EmptyFs

\* DataReader._read_json on the parsed document
ReadJson ==
    /\ pc = "parsed"
    /\ LET out == _read_json(source)
       IN  /\ op' = "_read_json"
           /\ args' = [json_data |-> source]
           /\ ret' = [raised |-> out.raised]
           /\ data' = out.rows
           /\ pc' = IF out.raised # "" THEN "error" ELSE "read"
    /\ UNCHANGED <<DIALECTS, generator, source, config, fs>>

NextJson == ReadJson \/ ValidateData \/ GenerateValidated

SpecJson == InitJson /\ [][NextJson]_vars

(***************************************************************************)
(* Claims about the normalization of JSON documents (checked under         *)
(* SpecJson).                                                              *)
(***************************************************************************)
\* C19: after normalization of a nested-object source (flatten, clean,
\* reconcile) every value of every record is the NULL-marker or a string,
\* also where the source has a number or a boolean.
C19_ValuesAreStringOrNull ==
    (pc \in {"validated", "generated"}) =>
        \A r \in DOMAIN data :
            \A i \in DOMAIN data[r] : data[r][i].v.t \in {"none", "str"}

\* the elements of the document: those of its array, or the single object
Elements(doc) == IF doc.t = "list" THEN doc.items ELSE <<doc>>

\* the key paths that end at a value that is not a mapping, or at an empty
\* mapping
RECURSIVE EndPaths(_)
EndPaths(entries) ==
    UNION {IF entries[i].v.t = "dict" /\ entries[i].v.items # <<>>
           THEN {<<entries[i].k>> \o p : p \in EndPaths(entries[i].v.items)}
           ELSE {<<entries[i].k>>} : i \in DOMAIN entries}

\* the column a key path stands for: its flattened name after cleanup
ColumnOf(path) == CleanKey(PathName(path, <<>>))

\* C20: unless an error is reported, no row and no column is dropped: each
\* element of the document gives exactly one record and one INSERT, and
\* each key path of an element has a column of its own in the output.
C20_NoSilentDrop ==
    (pc \in {"read", "validated", "generated"}) =>
        LET elements == Elements(source)
        IN  /\ Len(data) = Len(elements)
            /\ \A r \in DOMAIN elements :
                  (r <= Len(data) /\ elements[r].t = "dict") =>
                      LET paths == EndPaths(elements[r].items)
                      IN  /\ \A p \in paths : HasKey(data[r], ColumnOf(p))
                          /\ \A p, q \in paths : ColumnOf(p) = ColumnOf(q) => p = q
            /\ (pc = "generated" /\ ret.raised = "") =>
                  LET ins == SelectSeq(OutputLines, IsInsertLine)
                  IN  /\ Len(ins) = Len(elements)
                      /\ \A r \in DOMAIN ins :
                            \A k \in AllKeys(data) : InList(k, ParsedColumns(ins[r]))

(***************************************************************************)
(* SpecNormalize: the three normalization steps of DataReader are applied  *)
(* to a record set, one after the other, and then once more to their own   *)
(* output: _flatten_json_object on every record, _clean_data,              *)
(* validate_data.  ret counts the completed rounds and keeps the output of *)
(* the first one.                                                          *)
(***************************************************************************)
\* column names made of the BOM, the blank and a letter
NormKeys == AllSeqs({BOM, " ", "a"}, MaxKeyLen)

\* records of several shapes: a number, a string, a nested object, a list
NormRecords ==
    { <<Entry(<<"a">>, JInt(1))>>,
      <<Entry(<<"b">>, Str(<<"x">>))>>,
      <<Entry(<<"a">>, JDict(<<Entry(<<"b">>, JInt(1))>>))>>,
      <<Entry(<<"b">>, JList(<<>>)), Entry(<<"a">>, JInt(2))>> }

\* one record under any column name, or a few records of several shapes
NormRecordSets ==
    {<< <<Entry(k, JInt(1))>> >> : k \in NormKeys}
    \cup {<< <<Entry(k, JInt(1)), Entry(<<"a">>, JInt(2))>> >> : k \in NormKeys \ {<<"a">>}}
    \cup AllSeqs(NormRecords, MaxNormRows)

InitNormalize ==
    /\ op = ""
    /\ args = NoArgs
    /\ ret = [round |-> 0, first |-> <<>>]
    /\ pc = "raw"
    /\ DIALECTS = BuiltinDialects
    /\ generator = NoGenerator
    /\ source \in NormRecordSets
    /\ data = source
    /\ config = DEFAULT_CONFIG
    /\ fs = EmptyFs

\* _flatten_json_object on every record, the first time and once more on
\* the normalized records
FlattenRecords ==
    /\ pc = "raw" \/ (pc = "normalized" /\ ret.round = 1)
    /\ op' = "_flatten_json_object"
    /\ args' = [data |-> data]
    /\ data' = [r \in 1..Len(data) |-> _flatten_json_object(JDict(data[r]), <<>>)]
    /\ pc' = "flat"
    /\ UNCHANGED <<ret, DIALECTS, generator, source, config, fs>>

\* _clean_data on the flattened records
CleanData ==
    /\ pc = "flat"
    /\ op' = "_clean_data"
    /\ args' = [data |-> data]
    /\ data' = _clean_data(data)
    /\ pc' = "clean"
    /\ UNCHANGED <<ret, DIALECTS, generator, source, config, fs>>

\* validate_data on the cleaned records
Reconcile ==
    \E order \in IterationOrders(AllKeys(data)) :
        LET out == validate_data(data, order)
        IN  /\ pc = "clean"
            /\ op' = "validate_data"
            /\ args' = [data |-> data]
            /\ data' = out.rows
            /\ ret' = [round |-> ret.round + 1,
                       first |-> IF ret.round = 0 THEN out.rows ELSE ret.first]
            /\ pc' = IF out.result THEN "normalized" ELSE "invalid"
            /\ UNCHANGED <<DIALECTS, generator, source, config, fs>>

NextNormalize == FlattenRecords \/ CleanData \/ Reconcile

SpecNormalize == InitNormalize /\ [][NextNormalize]_vars

(***************************************************************************)
(* Claims about the normalization steps (checked under SpecNormalize).     *)
(***************************************************************************)
\* C21: after _clean_data no column name of any row contains U+FEFF, none
\* begins or ends with whitespace, wherever the BOM and the whitespace were
\* in the original name, and the values are those of the original row.
C21_CleanNamesHaveNoBomNoPadding ==
    (op = "_clean_data") =>
        /\ Len(data) = Len(args.data)
        /\ \A r \in DOMAIN data :
              /\ \A i \in DOMAIN data[r] :
                    LET key == data[r][i].k
                    IN  /\ \A j \in DOMAIN key : key[j] # BOM
                        /\ key # <<>> =>
                              key[1] \notin Whitespace /\ key[Len(key)] \notin Whitespace
              /\ {data[r][i].v : i \in DOMAIN data[r]}
                     \subseteq {args.data[r][i].v : i \in DOMAIN args.data[r]}

\* C22: normalization is idempotent: the normalization steps applied to
\* the output of normalization give an equal record set, with the same
\* records, the same keys in the same order and the same values.
C22_NormalizationIdempotent ==
    (pc = "normalized" /\ ret.round = 2) => data = ret.first

(***************************************************************************)
(* DataReader._read_txt.  The file is the list of its lines as readlines   *)
(* returns them, each with its line end.                                   *)
(***************************************************************************)
\* first_line = lines[0].strip()
TxtFirstLine(lines) == Strip(lines[1])

\* the separator: a tab if first_line has one, else a space
TxtSeparator(lines) ==
    IF \E i \in DOMAIN TxtFirstLine(lines) : TxtFirstLine(lines)[i] = "\t"
    THEN "\t" ELSE " "

\* [col.strip() for col in first_line.split(separator) if col.strip()]
TxtHeader(lines) ==
    LET cols == Split(TxtFirstLine(lines), TxtSeparator(lines))
    IN  SelectSeq([i \in 1..Len(cols) |-> Strip(cols[i])], LAMBDA col : col # <<>>)

\* the values of one line: split, stripped, padded with '' to the length
\* of the header and cut to it
TxtValues(line, separator, width) ==
    LET parts == Split(line, separator)
        values == [i \in 1..Len(parts) |-> Strip(parts[i])]
    IN  [j \in 1..width |-> IF j <= Len(values) THEN values[j] ELSE <<>>]

\* dict(zip(header, values)) from position j on
RECURSIVE DictZip(_, _, _, _)
DictZip(header, values, j, row) ==
    IF j > Len(header) \/ j > Len(values) THEN row
    ELSE DictZip(header, values, j + 1, SetItem(row, header[j], Str(values[j])))

\* the loop over lines[1:]: one row for each line that is not blank
TxtRows(lines) ==
    LET body == SelectSeq(Tail(lines), LAMBDA line : Strip(line) # <<>>)
        header == TxtHeader(lines)
    IN  [r \in 1..Len(body) |->
            DictZip(header,
                    TxtValues(Strip(body[r]), TxtSeparator(lines), Len(header)),
                    1, <<>>)]

\* DataReader._read_txt on the lines of the file
_read_txt(lines) == IF lines = <<>> THEN <<>> ELSE _clean_data(TxtRows(lines))

(***************************************************************************)
(* SpecTxt: one call of _read_txt on a text file.                          *)
(***************************************************************************)
\* lines of a file: blank ones, headers and rows separated by blanks or by
\* tabs, short and long rows, a repeated blank
TxtLineTexts ==
    { <<>>,
      <<" ">>,
      <<"a", " ", "b">>,
      <<"a", "\t", "b">>,
      <<"1", " ", "2">>,
      <<"1", "\t", "2", " ", "3">>,
      <<"1">>,
      <<"1", " ", "2", " ", "3">>,
      <<"1", " ", " ", "2">> }

TxtLines == {t \o <<"\n">> : t \in TxtLineTexts}

InitTxt ==
    /\ op = "open"
    /\ args = NoArgs
    /\ ret = NoRet
    /\ pc = "call"
    /\ DIALECTS = BuiltinDialects
    /\ generator = NoGenerator
    /\ source \in AllSeqs(TxtLines, MaxTxtLines)
    /\ data = <<>>
    /\ config = DEFAULT_CONFIG
    /\ fs = EmptyFs

\* DataReader._read_txt; ret keeps the separator and the header the call
\* worked with
ReadTxt ==
    /\ pc = "call"
    /\ op' = "_read_txt"
    /\ args' = [lines |-> source]
    /\ data' = _read_txt(source)
    /\ ret' = IF source = <<>> THEN [separator |-> "", header |-> <<>>]
              ELSE [separator |-> TxtSeparator(source), header |-> TxtHeader(source)]
    /\ pc' = "return"
    /\ UNCHANGED <<DIALECTS, generator, source, config, fs>>

NextTxt == ReadTxt

SpecTxt == InitTxt /\ [][NextTxt]_vars

(***************************************************************************)
(* Claims about _read_txt (checked under SpecTxt).                         *)
(***************************************************************************)
\* the positions of the lines that are not empty
NonEmptyAt(lines) == {i \in DOMAIN lines : Strip(lines[i]) # <<>>}

\* the position of the first line that is not empty
HeaderAt(lines) == CHOOSE i \in NonEmptyAt(lines) : \A j \in NonEmptyAt(lines) : i <= j

\* the delimiter the claims expect: a tab if the header line has one, else
\* a single space
C23_Delimiter(lines) ==
    IF \E i \in DOMAIN lines[HeaderAt(lines)] : lines[HeaderAt(lines)][i] = "\t"
    THEN "\t" ELSE " "

\* the fields of a line under a delimiter, without the blanks around them
FieldsOf(line, delimiter) ==
    LET parts == Split(Strip(line), delimiter)
    IN  [i \in 1..Len(parts) |-> Strip(parts[i])]

\* the names of the header line the claims expect
C23_Header(lines) ==
    SelectSeq(FieldsOf(lines[HeaderAt(lines)], C23_Delimiter(lines)),
              LAMBDA f : f # <<>>)

\* C23: the header is the first non-empty line of the file (leading blank
\* lines are skipped and do not become the header), and the delimiter is a
\* tab if a tab appears in that line, otherwise a single space.
C23_HeaderIsFirstNonEmptyLine ==
    (op = "_read_txt" /\ NonEmptyAt(source) # {}) =>
        /\ ret.header = C23_Header(source)
        /\ ret.separator = C23_Delimiter(source)

\* C24: every non-empty line after the header gives exactly one record, in
\* the order of the lines: the j-th field of the line is the value of the
\* j-th header field, a missing field is the empty string, the fields
\* beyond the header are left out; blank lines give no record.
C24_OneRecordPerLine ==
    (op = "_read_txt" /\ NonEmptyAt(source) # {}) =>
        LET header == C23_Header(source)
            body == SelectSeq(SubSeq(source, HeaderAt(source) + 1, Len(source)),
                              LAMBDA line : Strip(line) # <<>>)
        IN  /\ Len(data) = Len(body)
            /\ \A r \in DOMAIN data :
                  LET fields == FieldsOf(body[r], C23_Delimiter(source))
                  IN  /\ Keys(data[r]) = header
                      /\ \A j \in DOMAIN header :
                            data[r][j].v =
                                Str(IF j <= Len(fields) THEN fields[j] ELSE <<>>)

(***************************************************************************)
(* DataReader.read_file: the dispatch on the extension of the file, and    *)
(* the CSV and XML readers it dispatches to.  A file is a record of its    *)
(* path, whether it exists, and its content as each parser returns it:     *)
(* lines (readlines), csv_rows (csv.DictReader), xml_root (ET.parse) and   *)
(* json_data (json.load).                                                  *)
(***************************************************************************)
\* str.lower() on one character (the letters the model uses)
LowerChar(c) ==
    CASE c = "C" -> "c" [] c = "S" -> "s" [] c = "V" -> "v"
      [] c = "T" -> "t" [] c = "X" -> "x" [] c = "M" -> "m"
      [] c = "L" -> "l" [] c = "J" -> "j" [] c = "O" -> "o"
      [] c = "N" -> "n" [] c = "D" -> "d" [] c = "A" -> "a"
      [] OTHER -> c

Lower(s) == [i \in 1..Len(s) |-> LowerChar(s[i])]

\* Path(file_path).suffix: the name from its last dot on, unless that dot
\* is the first or the last character of the name
Suffix(name) ==
    LET dots == {i \in DOMAIN name : name[i] = "."}
    IN  IF dots = {} THEN <<>>
        ELSE LET last == CHOOSE i \in dots : \A j \in dots : j <= i
             IN  IF last = 1 \/ last = Len(name) THEN <<>>
                 ELSE SubSeq(name, last, Len(name))

\* the extension compared as written, without .lower()
FileExtension_exact(file_path) == Suffix(file_path)

\* file_extension = Path(file_path).suffix.lower()
FileExtension(file_path) == Lower(Suffix(file_path))

\* DataReader._read_csv on the rows csv.DictReader yields
_read_csv(csv_rows) == IF csv_rows = <<>> THEN <<>> ELSE _clean_data(csv_rows)

\* an XML element: its tag, its text (NoneArg when it has none), its children
Element(tag, text, children) == [tag |-> tag, text |-> text, children |-> children]

\* subchild.text or ''
TextOrEmpty(text) == IF text = NoneArg THEN <<>> ELSE text[1]

\* the row of a child that has children, from subchild j on
RECURSIVE XmlRow(_, _, _)
XmlRow(child, j, row) ==
    IF j > Len(child.children) THEN row
    ELSE LET subchild == child.children[j]
         IN  XmlRow(child, j + 1,
                    IF Len(subchild.children) = 0
                    THEN SetItem(row, subchild.tag, Str(TextOrEmpty(subchild.text)))
                    ELSE SetItem(row, subchild.tag, None))

\* the loop over the children of the root, from child i on
RECURSIVE XmlRows(_, _, _)
XmlRows(root, i, rows) ==
    IF i > Len(root.children) THEN rows
    ELSE LET child == root.children[i]
         IN  XmlRows(root, i + 1,
                IF Len(child.children) > 0
                THEN (IF XmlRow(child, 1, <<>>) # <<>>
                      THEN Append(rows, XmlRow(child, 1, <<>>)) ELSE rows)
                ELSE IF child.text # NoneArg /\ child.text[1] # <<>>
                        /\ Strip(child.text[1]) # <<>>
                THEN Append(rows, SetItem(<<>>, child.tag, Str(Strip(child.text[1]))))
                ELSE rows)

\* DataReader._read_xml on the root of the parsed tree
_read_xml(root) == _clean_data(XmlRows(root, 1, <<>>))

\* DataReader.read_file: [raised, message, reader, rows]
read_file(file) ==
    IF ~file.exists
    THEN [raised |-> "FileNotFoundError",
          message |-> <<"File '">> \o file.path \o <<"' not found.">>,
          reader |-> "", rows |-> <<>>]
    ELSE LET file_extension == FileExtension(file.path)
         IN  IF file_extension = <<".", "c", "s", "v">>
             THEN [raised |-> "", message |-> <<>>, reader |-> "_read_csv",
                   rows |-> _read_csv(file.csv_rows)]
             ELSE IF file_extension = <<".", "t", "x", "t">>
             THEN [raised |-> "", message |-> <<>>, reader |-> "_read_txt",
                   rows |-> _read_txt(file.lines)]
             ELSE IF file_extension = <<".", "x", "m", "l">>
             THEN [raised |-> "", message |-> <<>>, reader |-> "_read_xml",
                   rows |-> _read_xml(file.xml_root)]
             ELSE IF file_extension = <<".", "j", "s", "o", "n">>
             THEN [raised |-> _read_json(file.json_data).raised,
                   message |-> IF _read_json(file.json_data).raised = "" THEN <<>>
                               ELSE <<"Error reading JSON file: ">>,
                   reader |-> "_read_json",
                   rows |-> _read_json(file.json_data).rows]
             ELSE [raised |-> "ValueError",
                   message |-> <<"Unsupported file format: ">> \o file_extension,
                   reader |-> "", rows |-> <<>>]

(***************************************************************************)
(* SpecReadFile: one call of read_file on one file.                        *)
(***************************************************************************)
\* file names: the four formats in lower, upper and mixed case, other
\* extensions, two extensions, no extension
FilePaths ==
    { <<"d", ".", "c", "s", "v">>, <<"d", ".", "C", "S", "V">>,
      <<"d", ".", "t", "x", "t">>, <<"d", ".", "T", "x", "t">>,
      <<"d", ".", "x", "m", "l">>, <<"d", ".", "X", "M", "L">>,
      <<"d", ".", "j", "s", "o", "n">>, <<"d", ".", "J", "s", "o", "n">>,
      <<"d", ".", "d", "a", "t">>, <<"d", ".", "D", "A", "T">>,
      <<"d", ".", "c", "s", "v", ".", "d", "a", "t">>,
      <<"d", ".", "d", "a", "t", ".", "t", "x", "t">>,
      <<"d", ".", "c", "s">>, <<"d">>, <<".", "c", "s", "v">> }

FileLines == { <<>>, << <<"a", " ", "b", "\n">>, <<"1", " ", "2", "\n">> >> }

FileCsvRows == { <<>>, << <<[k |-> <<" ", "a">>, v |-> Str(<<"1">>)]>> >> }

FileXmlRoots ==
    { Element(<<"r">>, NoneArg, <<>>),
      Element(<<"r">>, NoneArg,
              << Element(<<"u">>, NoneArg,
                         << Element(<<"a">>, Some(<<"1">>), <<>>),
                            Element(<<"b">>, NoneArg, <<>>),
                            Element(<<"c">>, NoneArg,
                                    <<Element(<<"x">>, Some(<<"2">>), <<>>)>>) >>),
                 Element(<<"v">>, Some(<<" ", "3">>), <<>>),
                 Element(<<"w">>, Some(<<" ">>), <<>>) >>) }

FileJsonData == { JInt(5), JList(<<JDict(<<Entry(<<"a">>, JInt(1))>>)>>) }

Files ==
    [path : FilePaths, exists : BOOLEAN, lines : FileLines,
     csv_rows : FileCsvRows, xml_root : FileXmlRoots, json_data : FileJsonData]

InitReadFile ==
    /\ op = "open"
    /\ args = NoArgs
    /\ ret = NoRet
    /\ pc = "call"
    /\ DIALECTS = BuiltinDialects
    /\ generator = NoGenerator
    /\ source \in Files
    /\ data = <<>>
    /\ config = DEFAULT_CONFIG
    /\ fs = EmptyFs

\* DataReader.read_file(file_path)
ReadFile ==
    /\ pc = "call"
    /\ LET out == read_file(source)
       IN  /\ op' = "read_file"
           /\ args' = [file_path |-> source.path]
           /\ ret' = [raised |-> out.raised, message |-> out.message,
                      reader |-> out.reader]
           /\ data' = out.rows
           /\ pc' = IF out.raised # "" THEN "error" ELSE "read"
    /\ UNCHANGED <<DIALECTS, generator, source, config, fs>>

NextReadFile == ReadFile

SpecReadFile == InitReadFile /\ [][NextReadFile]_vars

(***************************************************************************)
(* Claims about read_file (checked under SpecReadFile).                    *)
(***************************************************************************)
\* the reader of each supported extension, and what it returns for the file
ReaderOf == [e \in {<<".", "c", "s", "v">>, <<".", "t", "x", "t">>,
                    <<".", "x", "m", "l">>, <<".", "j", "s", "o", "n">>} |->
                IF e = <<".", "c", "s", "v">> THEN "_read_csv"
                ELSE IF e = <<".", "t", "x", "t">> THEN "_read_txt"
                ELSE IF e = <<".", "x", "m", "l">> THEN "_read_xml" ELSE "_read_json"]

RowsOf(reader, file) ==
    IF reader = "_read_csv" THEN _read_csv(file.csv_rows)
    ELSE IF reader = "_read_txt" THEN _read_txt(file.lines)
    ELSE IF reader = "_read_xml" THEN _read_xml(file.xml_root)
    ELSE _read_json(file.json_data).rows

\* the last n characters of a message
MessageEnd(message, n) ==
    IF n = 0 THEN <<>> ELSE SubSeq(message, Len(message) - n + 1, Len(message))

\* C25: on an existing file whose extension, compared without regard to
\* case, is none of .csv, .txt, .xml, .json, read_file fails with an error
\* whose message names the extension and returns no records; each of the
\* four extensions is dispatched to its own reader.
C25_UnsupportedExtensionFails ==
    (op = "read_file" /\ source.exists) =>
        LET extension == Suffix(source.path)
        IN  IF Lower(extension) \in DOMAIN ReaderOf
            THEN /\ ret.reader = ReaderOf[Lower(extension)]
                 /\ data = RowsOf(ret.reader, source)
                 /\ ret.raised # "ValueError"
            ELSE /\ ret.raised = "ValueError"
                 /\ Len(ret.message) > Len(extension)
                 /\ Lower(MessageEnd(ret.message, Len(extension))) = Lower(extension)
                 /\ ret.reader = ""
                 /\ data = <<>>

\* an existing .DAT file was refused with a message that ends in .dat
C25_Witness ==
    /\ op = "read_file"
    /\ source.exists
    /\ source.path = <<"d", ".", "D", "A", "T">>
    /\ ret.raised = "ValueError"
    /\ ret.message = <<"Unsupported file format: ", ".", "d", "a", "t">>
    /\ data = <<>>

(***************************************************************************)
(* SpecRegistry: one generator built from the configuration, add_dialect   *)
(* calls on it or on other generators, list_dialects, generate_inserts.    *)
(* pc counts the add_dialect calls.                                        *)
(***************************************************************************)
\* the classes handed to add_dialect: the three dialects, the abstract
\* class SQLDialect, and a class that has nothing to do with dialects
OfferedClasses == SubclassesOfSQLDialect \cup {"object"}

\* the names dialects are registered under
OfferedNames == {"sqlserver", "mysql", "oracle"}

RegistryConfigs ==
    {[DEFAULT_CONFIG EXCEPT !.sql_dialect = d, !.batch_size = b] :
        d \in OfferedNames, b \in 1..MaxBatch}

InitRegistry ==
    /\ op = ""
    /\ args = NoArgs
    /\ ret = NoRet
    /\ pc = 0
    /\ DIALECTS = BuiltinDialects
    /\ generator = NoGenerator
    /\ source \in BatchRecordSets(MaxRegRows)
    /\ data = source
    /\ config \in RegistryConfigs
    /\ fs = EmptyFs

\* SQLGenerator(dialect=config['sql_dialect'], batch_size=config['batch_size'])
ConstructFromConfig ==
    /\ ~generator.made
    /\ LET made == SQLGenerator_init(DIALECTS, config.sql_dialect, config.batch_size)
       IN  /\ op' = "__init__"
           /\ args' = [dialect |-> config.sql_dialect, batch_size |-> config.batch_size]
           /\ ret' = [raised |-> made.raised, message |-> made.message]
           /\ generator' = made.self
    /\ UNCHANGED <<DIALECTS, source, data, pc, config, fs>>

\* add_dialect(name, dialect_class) called on the generator of the state
\* ("this") or on a generator built for the call with the defaults ("other")
AddDialect ==
    \E name \in OfferedNames, dialect_class \in OfferedClasses,
       on \in {"this", "other"} :
        /\ pc < MaxAdds
        /\ IF on = "this" THEN generator.made
           ELSE SQLGenerator_init(DIALECTS, "sqlserver", DefaultBatchSize).raised = ""
        /\ LET self == IF on = "this" THEN generator
                       ELSE SQLGenerator_init(DIALECTS, "sqlserver", DefaultBatchSize).self
               out == add_dialect(self, DIALECTS, name, dialect_class)
           IN  /\ op' = "add_dialect"
               /\ args' = [name |-> name, dialect_class |-> dialect_class, on |-> on]
               /\ ret' = [raised |-> out.raised, message |-> out.message]
               /\ DIALECTS' = out.DIALECTS
               /\ generator' = IF on = "this" THEN out.self ELSE generator
        /\ pc' = pc + 1
        /\ UNCHANGED <<source, data, config, fs>>

\* list_dialects(), on any generator
ListDialects ==
    /\ op # "list_dialects"
    /\ op' = "list_dialects"
    /\ args' = NoArgs
    /\ ret' = [result |-> list_dialects(DIALECTS)]
    /\ UNCHANGED <<DIALECTS, generator, source, data, pc, config, fs>>

\* generate_inserts(data, '#t') on the generator of the state
GenerateRegistry ==
    /\ generator.made
    /\ op # "generate_inserts"
    /\ op' = "generate_inserts"
    /\ args' = [data |-> data, table_name |-> <<"#", "t">>, null_values |-> NoneArg]
    /\ ret' = generate_inserts(generator, data, <<"#", "t">>, NoneArg)
    /\ UNCHANGED <<DIALECTS, generator, source, data, pc, config, fs>>

NextRegistry == ConstructFromConfig \/ AddDialect \/ ListDialects \/ GenerateRegistry

SpecRegistry == InitRegistry /\ [][NextRegistry]_vars

(***************************************************************************)
(* Claims about the registry (checked under SpecRegistry).                 *)
(***************************************************************************)
\* the classes that implement both dialect operations
ImplementsBoth(cls) == cls \in DialectClasses

\* C26: after any sequence of add_dialect calls the names sqlserver, mysql
\* and postgresql are still registered (list_dialects has them and a
\* generator can be constructed with them), every name registered with a
\* class that implements both operations is accepted by the constructor,
\* and a call with a class that does not implement the dialect interface
\* raises an error and leaves the registry as it was.
C26_BuiltinsStayRegistered ==
    /\ [](\A i \in DOMAIN BuiltinDialects :
             /\ InList(BuiltinDialects[i].k, list_dialects(DIALECTS))
             /\ SQLGenerator_init(DIALECTS, BuiltinDialects[i].k,
                                  DefaultBatchSize).raised = "")
    /\ [](\A i \in DOMAIN DIALECTS :
             ImplementsBoth(DIALECTS[i].v) =>
                 SQLGenerator_init(DIALECTS, DIALECTS[i].k, DefaultBatchSize).raised = "")
    /\ [][(op' = "add_dialect" /\ pc' # pc /\ ~ImplementsBoth(args'.dialect_class)) =>
              (ret'.raised # "" /\ DIALECTS' = DIALECTS)]_vars

\* C27: the dialect and the batch interval of a generator are fixed when it
\* is constructed: no later step, neither generate_inserts nor add_dialect
\* on this or another generator, changes them, and generate_inserts leaves
\* the records it is given as they were.
C27_DialectFixedAtConstruction ==
    [][/\ generator.made =>
            /\ generator'.made
            /\ generator'.dialect = generator.dialect
            /\ generator'.batch_size = generator.batch_size
       /\ op' = "generate_inserts" =>
            /\ data' = data
            /\ ret' = generate_inserts(generator, data, args'.table_name, NoneArg)]_vars

\* the name the generator was constructed with was registered again with
\* another class, and then the generator generated
C27_Witness ==
    /\ generator.made
    /\ op = "generate_inserts"
    /\ ret.raised = ""
    /\ data # <<>>
    /\ pc > 0
    /\ ImplementsBoth(Get(DIALECTS, config.sql_dialect))
    /\ Get(DIALECTS, config.sql_dialect) # generator.dialect

(***************************************************************************)
(* The legacy script src/sql_generator.py: generate_sql_inserts.           *)
(***************************************************************************)
\* deliberately wrong variant: only None, '' and the exact text NULL
LegacyRendersNull_exact(value) ==
    \/ value.t = "none"
    \/ (value.t = "str" /\ value.s = <<>>)
    \/ value.s = TXT_NULL

\* "value is None or value == '' or str(value).strip() == '' or
\* str(value).strip().upper() == 'NULL'"
LegacyRendersNull(value) ==
    \/ value.t = "none"
    \/ (value.t = "str" /\ value.s = <<>>)
    \/ Strip(value.s) = <<>>
    \/ Upper(Strip(value.s)) = TXT_NULL

\* the loop over enumerate(data, 1) for the rows lo..hi: the lines it
\* appends and the error that ended it; the interval of the progress
\* comment is the literal 100.  The lines of lo..hi are those of the first
\* half followed, unless the first half raised, by those of the second half.
RECURSIVE LegacyInsertLoop(_, _, _, _, _)
LegacyInsertLoop(rows, table_name, columns, lo, hi) ==
    IF lo > hi THEN [raised |-> "", sql_lines |-> <<>>]
    ELSE IF lo = hi
    THEN IF \E c \in DOMAIN columns : ~HasKey(rows[lo], columns[c])
         THEN [raised |-> "KeyError", sql_lines |-> <<>>]
         ELSE LET values ==
                      [c \in 1..Len(columns) |->
                          IF LegacyRendersNull(Get(rows[lo], columns[c])) THEN TXT_NULL
                          ELSE <<"'">>
                               \o Replace(Get(rows[lo], columns[c]).s, "'", <<"'", "'">>)
                               \o <<"'">>]
                  insert_stmt ==
                      TXT_INSERT_INTO \o table_name \o <<" ", "(">>
                      \o Join(columns, TXT_COMMA) \o TXT_VALUES
                      \o Join(values, TXT_COMMA) \o <<")", ";">>
              IN  IF lo % 100 = 0
                  THEN [raised |-> "",
                        sql_lines |-> <<insert_stmt,
                                        TXT_PROCESSED \o IntStr(lo) \o TXT_ROWS>>]
                  ELSE [raised |-> "", sql_lines |-> <<insert_stmt>>]
    ELSE LET mid == (lo + hi) \div 2
             first == LegacyInsertLoop(rows, table_name, columns, lo, mid)
             second == LegacyInsertLoop(rows, table_name, columns, mid + 1, hi)
         IN  IF first.raised # "" THEN first
             ELSE [raised |-> second.raised,
                   sql_lines |-> first.sql_lines \o second.sql_lines]

\* generate_sql_inserts(data, table_name): [raised, text]
generate_sql_inserts(rows, table_name) ==
    IF rows = <<>> THEN [raised |-> "", text |-> TXT_NO_DATA]
    ELSE LET columns == Keys(rows[1])
             header == << TXT_HEADER_TABLE \o table_name,
                          TXT_HEADER_ROWS \o IntStr(Len(rows)),
                          TXT_HEADER_NOTE,
                          <<>> >>
             create ==
                 IF StartsWith(table_name, <<"#">>) /\ ~StartsWith(table_name, <<"#", "#">>)
                 THEN << TXT_CREATE_COMMENT,
                         TXT_CREATE_TABLE \o table_name \o TXT_OPEN,
                         Join([c \in 1..Len(columns) |->
                                  TXT_INDENT \o columns[c] \o TXT_NVARCHAR_NULL],
                              <<",", "\n">>),
                         TXT_CLOSE,
                         <<>>,
                         TXT_INSERT_COMMENT,
                         <<>> >>
                 ELSE <<>>
             inserts == LegacyInsertLoop(rows, table_name, columns, 1, Len(rows))
         IN  IF inserts.raised # "" THEN [raised |-> inserts.raised, text |-> <<>>]
             ELSE [raised |-> "",
                   text |-> Join(header \o create \o inserts.sql_lines, <<"\n">>)]

(***************************************************************************)
(* SpecLegacy: the same records and table name given to the legacy         *)
(* generate_sql_inserts and to SQLGenerator('sqlserver', batch_size=100)   *)
(* .generate_inserts with the default sentinels; ret keeps both results.   *)
(***************************************************************************)
\* one record with one column, a record with two columns, two records, and
\* record sets around the interval of 100 records
LegacyRecordSets ==
    {<<>>}
    \cup { << <<[k |-> <<"a">>, v |-> v]>> >> : v \in CellValues }
    \cup { << <<[k |-> <<"a">>, v |-> v], [k |-> <<"b">>, v |-> w]>> >> :
              v \in GenValues, w \in {Str(<<"n", "o", "n", "e">>), Str(<<" ">>)} }
    \cup { << <<[k |-> <<"a">>, v |-> v]>>, <<[k |-> <<"a">>, v |-> w]>> >> :
              v \in GenValues, w \in {Str(<<"N", "o", "n", "e">>), Str(<<"n", "u", "l", "l">>)} }
    \cup { [r \in 1..n |-> <<[k |-> <<"a">>, v |-> v]>>] :
              n \in (MaxLegacyRows - 2)..MaxLegacyRows,
              v \in {None, Str(<<"a", "'">>), Str(<<"n", "o", "n", "e">>)} }

NoResult == <<>>

InitLegacy ==
    /\ op = "main"
    /\ args \in [data : LegacyRecordSets, table_name : TableNames]
    /\ ret = [legacy |-> NoResult, refactored |-> NoResult]
    /\ pc = "call"
    /\ DIALECTS = BuiltinDialects
    /\ generator = SQLGenerator_init(BuiltinDialects, "sqlserver", 100).self
    /\ source = <<>>
    /\ data = args.data
    /\ config = DEFAULT_CONFIG
    /\ fs = EmptyFs

\* generate_sql_inserts(data, table_name) of the legacy script
GenerateLegacy ==
    /\ ret.legacy = NoResult
    /\ op' = "generate_sql_inserts"
    /\ ret' = [ret EXCEPT !.legacy = Some(generate_sql_inserts(data, args.table_name))]
    /\ UNCHANGED <<args, DIALECTS, generator, source, data, pc, config, fs>>

\* SQLGenerator('sqlserver', batch_size=100).generate_inserts(data, table_name)
GenerateRefactored ==
    /\ ret.refactored = NoResult
    /\ op' = "generate_inserts"
    /\ ret' = [ret EXCEPT !.refactored =
                   Some(generate_inserts(generator, data, args.table_name, NoneArg))]
    /\ UNCHANGED <<args, DIALECTS, generator, source, data, pc, config, fs>>

NextLegacy == GenerateLegacy \/ GenerateRefactored

SpecLegacy == InitLegacy /\ [][NextLegacy]_vars

(***************************************************************************)
(* Claims about the legacy script (checked under SpecLegacy).              *)
(***************************************************************************)
\* the INSERT lines and the progress comments of a text, in order
StatementsAndProgress(text) ==
    SelectSeq(Split(text, "\n"), LAMBDA line : IsInsertLine(line) \/ IsProgressLine(line))

\* C29: for a record set with uniform columns and any table name, the
\* generator built as SQLGenerator('sqlserver', batch_size=100) with the
\* default sentinels and the legacy generate_sql_inserts give the same
\* sequence of INSERT lines and progress comments.
C29_RefinesLegacy ==
    (ret.legacy # NoResult /\ ret.refactored # NoResult) =>
        /\ ret.legacy[1].raised = ret.refactored[1].raised
        /\ StatementsAndProgress(ret.legacy[1].text)
               = StatementsAndProgress(ret.refactored[1].text)

\* both generators have written 100 INSERT lines and the comment after them
C29_Witness ==
    /\ ret.legacy # NoResult
    /\ ret.refactored # NoResult
    /\ Len(data) >= 100
    /\ data[1][1].v = Str(<<"n", "o", "n", "e">>)
    /\ Len(StatementsAndProgress(ret.refactored[1].text)) = Len(data) + 1
    /\ \E i \in DOMAIN StatementsAndProgress(ret.legacy[1].text) :
          IsProgressLine(StatementsAndProgress(ret.legacy[1].text)[i])

(***************************************************************************)
(* SpecInterval: a generator built with any batch interval from 0 on, then *)
(* one call of generate_inserts with the default sentinels.                *)
(***************************************************************************)
InitInterval == InitBatch

\* SQLGenerator(dialect, batch_size), batch_size from 0 on
ConstructAnyInterval ==
    \E dialect_name \in {"sqlserver", "mysql", "postgresql"}, batch_size \in 0..MaxBatch :
        /\ ~generator.made
        /\ op # "__init__"
        /\ LET made == SQLGenerator_init(DIALECTS, dialect_name, batch_size)
           IN  /\ op' = "__init__"
               /\ args' = [dialect |-> dialect_name, batch_size |-> batch_size]
               /\ ret' = [raised |-> made.raised, message |-> made.message]
               /\ generator' = made.self
        /\ UNCHANGED <<DIALECTS, source, data, pc, config, fs>>

NextInterval == ConstructAnyInterval \/ GenerateBatch

SpecInterval == InitInterval /\ [][NextInterval]_vars

\* C30: the batch interval is not validated at construction: a generator
\* built with the interval 0 is accepted; it returns the sentinel line for
\* the empty record set, and for every other record set it fails with
\* ZeroDivisionError at the first record (one statement was appended when
\* the loop ended) and returns no SQL text.
C30_ZeroIntervalFailsOnFirstRecord ==
    /\ (op = "__init__" /\ args.batch_size = 0) =>
           /\ ret.raised = ""
           /\ generator.made
           /\ generator.batch_size = 0
    /\ (op = "generate_inserts" /\ generator.batch_size = 0) =>
           IF data = <<>>
           THEN ret.raised = "" /\ ret.text = TXT_NO_DATA
           ELSE /\ ret.raised = "ZeroDivisionError"
                /\ ret.text = <<>>
                /\ Len(_generate_insert_statements(generator, data, args.table_name,
                                                   Keys(data[1]),
                                                   DefaultNullValues).sql_lines) = 1

\* a generator with the interval 0 was given two records or more and failed
C30_Witness ==
    /\ op = "generate_inserts"
    /\ generator.made
    /\ generator.batch_size = 0
    /\ Len(data) >= 2
    /\ ret.raised = "ZeroDivisionError"
    /\ ret.text = <<>>

(***************************************************************************)
(* SpecApp: SQLGeneratorApp.run on one input file, step by step.  args is  *)
(* the parsed command line; ret holds the exit status (with the step that  *)
(* exited) and the local sql_content.  The command line names an input     *)
(* file, may ask for a preset, and asks for no interactive mode and no     *)
(* sample config.                                                          *)
(***************************************************************************)
MaxAppRows == 1     \* most records in the input file of an application run

\* deliberately wrong variant: only the name "##" itself is refused
validate_table_name_exact(table_name) == table_name # <<"#", "#">>

\* FileManager.validate_table_name
validate_table_name(table_name) == ~StartsWith(table_name, <<"#", "#">>)

\* the default of the -t/--table option
TableOptionDefault == DEFAULT_CONFIG.default_table_name

\* configurations as loaded from a config file
AppConfigs ==
    {[DEFAULT_CONFIG EXCEPT !.sql_dialect = d, !.default_table_name = t] :
        d \in {"sqlserver", "mysql", "oracle"},
        t \in {TableOptionDefault, <<"#", "#", "g">>}}

\* PresetManager.PRESETS
PRESETS ==
    [name \in {"quick", "detailed", "minimal"} |->
        CASE name = "quick" ->
                [verbose |-> FALSE, batch_size |-> 1000,
                 include_create_table |-> FALSE, max_rows_per_file |-> 5000]
          [] name = "detailed" ->
                [verbose |-> TRUE, batch_size |-> 50,
                 include_create_table |-> TRUE, max_rows_per_file |-> 1000]
          [] name = "minimal" ->
                [verbose |-> FALSE, batch_size |-> 5000,
                 include_create_table |-> FALSE, max_rows_per_file |-> 50000]]

\* PresetManager.apply_preset: get_preset raises ValueError for a name that
\* is not a preset; else config.update(preset)
apply_preset(cfg, preset_name) ==
    IF preset_name \notin DOMAIN PRESETS
    THEN [raised |-> "ValueError", config |-> cfg]
    ELSE [raised |-> "",
          config |-> [cfg EXCEPT !.verbose = PRESETS[preset_name].verbose,
                                 !.batch_size = PRESETS[preset_name].batch_size,
                                 !.include_create_table =
                                     PRESETS[preset_name].include_create_table,
                                 !.max_rows_per_file =
                                     PRESETS[preset_name].max_rows_per_file]]

\* CLIManager.handle_preset: the updated configuration, or the one it was
\* given when the ValueError was caught
handle_preset(preset_name, cfg) == apply_preset(cfg, preset_name).config

\* self.config_manager.config = value: config is a property without a
\* setter, so the assignment raises AttributeError and _config keeps its value
ConfigAssign(_config, value) ==
    [raised |-> "AttributeError",
     message |-> <<"property 'config' of 'ConfigManager' object has no setter">>,
     _config |-> _config]

\* the --preset option: left out, a preset, or a name that is no preset
PresetOptions == {NoneArg} \cup {Some(n) : n \in DOMAIN PRESETS \cup {"nosuch"}}

AppArgs ==
    [csv_file : {TRUE}, table : TableNames \cup {TableOptionDefault},
     preset : PresetOptions]

Running == [status |-> "running", at |-> "", message |-> <<>>, sql_content |-> <<>>,
            generated |-> FALSE]

\* sys.exit(code) at the named step
Exit(code, step) == [ret EXCEPT !.status = code, !.at = step]

InitApp ==
    /\ op = "run"
    /\ args \in AppArgs
    /\ ret = Running
    /\ pc = "initialize"
    /\ DIALECTS = BuiltinDialects
    /\ generator = NoGenerator
    /\ source \in UniformRecordSets(MaxAppRows)
    /\ data = <<>>
    /\ config \in AppConfigs
    /\ fs \in [input_exists : BOOLEAN, output_dir : {FALSE}, output_file : {FALSE},
               content : {<<>>}]

\* _initialize_components: the SQLGenerator is built from the configuration;
\* the ValueError of an unknown dialect is caught by run, which prints its
\* message and ends with exit status 1
AppInitializeComponents ==
    /\ pc = "initialize"
    /\ LET made == SQLGenerator_init(DIALECTS, config.sql_dialect, config.batch_size)
       IN  IF made.raised # ""
           THEN /\ ret' = [Exit("exit1", "_initialize_components")
                               EXCEPT !.message = made.message]
                /\ pc' = "exit"
                /\ UNCHANGED generator
           ELSE /\ generator' = made.self
                /\ pc' = "preset"
                /\ UNCHANGED ret
    /\ UNCHANGED <<op, args, DIALECTS, source, data, config, fs>>

\* run, "Handle presets": with --preset the configuration property is read
\* (a copy), handed to handle_preset, and the result is assigned to the
\* property; an exception ends run with exit status 1
AppHandlePreset ==
    /\ pc = "preset"
    /\ IF args.preset = NoneArg
       THEN pc' = "override" /\ UNCHANGED <<ret, config>>
       ELSE LET assigned == ConfigAssign(config, handle_preset(args.preset[1], config))
            IN  /\ config' = assigned._config
                /\ IF assigned.raised # ""
                   THEN /\ pc' = "exit"
                        /\ ret' = [Exit("exit1", "handle_preset")
                                       EXCEPT !.message = assigned.message]
                   ELSE pc' = "override" /\ UNCHANGED ret
    /\ UNCHANGED <<op, args, DIALECTS, generator, source, data, fs>>

\* _override_config_with_args: a -t option replaces the configured name
AppOverrideConfig ==
    /\ pc = "override"
    /\ config' = IF args.table # TableOptionDefault
                 THEN [config EXCEPT !.default_table_name = args.table]
                 ELSE config
    /\ pc' = "check_file"
    /\ UNCHANGED <<op, args, ret, DIALECTS, generator, source, data, fs>>

\* _process_csv_file: resolve the path and check that the file exists
AppCheckFile ==
    /\ pc = "check_file"
    /\ IF fs.input_exists
       THEN pc' = "validate_table" /\ UNCHANGED ret
       ELSE pc' = "exit" /\ ret' = Exit("exit1", "validate_file_exists")
    /\ UNCHANGED <<op, args, DIALECTS, generator, source, data, config, fs>>

\* _process_csv_file: validate the table name
AppValidateTableName ==
    /\ pc = "validate_table"
    /\ IF validate_table_name(config.default_table_name)
       THEN pc' = "output_path" /\ UNCHANGED ret
       ELSE pc' = "exit" /\ ret' = Exit("exit1", "validate_table_name")
    /\ UNCHANGED <<op, args, DIALECTS, generator, source, data, config, fs>>

\* _process_csv_file: generate_output_path and ensure_output_directory
AppEnsureOutputDirectory ==
    /\ pc = "output_path"
    /\ fs' = [fs EXCEPT !.output_dir = TRUE]
    /\ pc' = "read"
    /\ UNCHANGED <<op, args, ret, DIALECTS, generator, source, data, config>>

\* _process_csv_file: read the file; no data ends run with exit status 1
AppReadFile ==
    /\ pc = "read"
    /\ data' = source
    /\ IF source = <<>>
       THEN pc' = "exit" /\ ret' = Exit("exit1", "read_file")
       ELSE pc' = "validate" /\ UNCHANGED ret
    /\ UNCHANGED <<op, args, DIALECTS, generator, source, config, fs>>

\* _process_csv_file: validate the data structure
AppValidateData ==
    /\ pc = "validate"
    /\ IF CSVReader_validate_data(data)
       THEN pc' = "generate" /\ UNCHANGED ret
       ELSE pc' = "exit" /\ ret' = Exit("exit1", "validate_data")
    /\ UNCHANGED <<op, args, DIALECTS, generator, source, data, config, fs>>

\* _process_csv_file: generate the SQL text
AppGenerate ==
    /\ pc = "generate"
    /\ LET out == generate_inserts(generator, data, config.default_table_name,
                                   Some(config.null_values))
       IN  IF out.raised # ""
           THEN pc' = "exit" /\ ret' = Exit("exit1", "generate_inserts")
           ELSE /\ pc' = "write"
                /\ ret' = [ret EXCEPT !.sql_content = out.text, !.generated = TRUE]
    /\ UNCHANGED <<op, args, DIALECTS, generator, source, data, config, fs>>

\* _process_csv_file: write the output file
AppWriteFile ==
    /\ pc = "write"
    /\ fs' = [fs EXCEPT !.output_file = TRUE, !.content = ret.sql_content]
    /\ pc' = "done"
    /\ UNCHANGED <<op, args, ret, DIALECTS, generator, source, data, config>>

NextApp ==
    \/ AppInitializeComponents
    \/ AppHandlePreset
    \/ AppOverrideConfig
    \/ AppCheckFile
    \/ AppValidateTableName
    \/ AppEnsureOutputDirectory
    \/ AppReadFile
    \/ AppValidateData
    \/ AppGenerate
    \/ AppWriteFile

SpecApp == InitApp /\ [][NextApp]_vars

(***************************************************************************)
(* Claims about the application run (checked under SpecApp).               *)
(***************************************************************************)
\* the table name of the request: the -t option if given, else the
\* configured name
RequestedTableName ==
    IF args.table # TableOptionDefault THEN args.table ELSE config.default_table_name

\* C8: when the table name begins with "##" no SQL text is produced for any
\* record set: the run is rejected before generation starts and before the
\* output directory, the output file or any SQL text is produced.
C8_GlobalTempTableRejected ==
    (op = "run" /\ StartsWith(RequestedTableName, <<"#", "#">>)) =>
        /\ ~fs.output_dir
        /\ ~fs.output_file
        /\ fs.content = <<>>
        /\ ~ret.generated
        /\ ret.sql_content = <<>>
        /\ pc \in {"initialize", "preset", "override", "check_file", "validate_table",
                  "exit"}
        /\ pc = "exit" => ret.status = "exit1"

\* C8 witness: a run on an existing file with records and a known dialect
\* was stopped by the table-name validation
C8_Witness ==
    /\ op = "run"
    /\ pc = "exit"
    /\ ret.at = "validate_table_name"
    /\ StartsWith(RequestedTableName, <<"#", "#">>)
    /\ fs.input_exists
    /\ source # <<>>

\* C28: in a run with a preset name the run goes on to process the input
\* file (it does not end at the preset step); from the preset step on, the
\* configuration has the values of a valid preset and is unchanged by a name
\* that is no preset; and the generation of the run uses those values (the
\* batch interval of the generator is the configured one).
C28_PresetAppliedAndInForce ==
    (op = "run" /\ args.preset # NoneArg) =>
        /\ pc = "exit" => ret.at # "handle_preset"
        /\ pc \notin {"initialize", "preset", "exit"} =>
              LET expected == IF args.preset[1] \in DOMAIN PRESETS
                              THEN PRESETS[args.preset[1]]
                              ELSE [f \in DOMAIN PRESETS["quick"] |-> DEFAULT_CONFIG[f]]
              IN  \A f \in DOMAIN expected : config[f] = expected[f]
        /\ ret.generated => generator.batch_size = config.batch_size

\* C11: a dialect name that is not in the registry fails at the construction
\* of the generator with an error whose message names the offending value
\* and lists every registered name; in the application this ends the run
\* before the input file is read and before any SQL text is generated.
C11_UnknownDialectFailsAtConstruction ==
    (op = "run" /\ ~HasKey(DIALECTS, config.sql_dialect)) =>
        /\ pc \in {"initialize", "exit"}
        /\ ~generator.made
        /\ data = <<>>
        /\ ~ret.generated
        /\ ret.sql_content = <<>>
        /\ ~fs.output_dir /\ ~fs.output_file /\ fs.content = <<>>
        /\ pc = "exit" =>
              /\ ret.status = "exit1"
              /\ ret.at = "_initialize_components"
              /\ \E i \in DOMAIN ret.message :
                    /\ ret.message[i] = config.sql_dialect
                    /\ \A k \in DOMAIN DIALECTS :
                          \E j \in DOMAIN ret.message :
                              j > i /\ ret.message[j] = DIALECTS[k].k

\* C11 witness: a run on an existing file with records and an acceptable
\* table name was stopped by the unknown dialect "oracle"
C11_Witness ==
    /\ op = "run"
    /\ pc = "exit"
    /\ config.sql_dialect = "oracle"
    /\ ret.at = "_initialize_components"
    /\ ret.message # <<>>
    /\ fs.input_exists
    /\ source # <<>>
    /\ ~StartsWith(RequestedTableName, <<"#", "#">>)

====
